---- MODULE Spec2Model ----
(***************************************************************************)
(* State-machine model of the AWS provider code under src/:                *)
(*   - the FSx file system lifecycle waiters (package fsx), which poll a   *)
(*     describe call through resource.StateChangeConf.WaitForState;        *)
(*   - the Create/Read/Update/Delete handlers of the resource types.       *)
(* WaitSpec is the specification of one FSx wait, CrudSpec the one of the  *)
(* resource handlers.                                                      *)
(***************************************************************************)
EXTENDS Integers, Sequences, FiniteSets, TLC

(***************************************************************************)
(* Bounds of the model.                                                    *)
(***************************************************************************)
\* largest number of describe calls that return before the timeout fires
MaxPolls == 22
\* largest number of describe calls that return before the timeout fires, and
\* of administrative actions a described file system lists, in AdminSpec
MaxAdminPolls == 2
MaxActions == 2
\* largest number of calls a resource.Retry makes before its timeout
MaxTries == 2

VARIABLES
    wkind,         \* which wait runs: "creation", "deletion", "update", "adminaction"
    waction,       \* the administrative action type the adminaction wait asks for
    wpc,           \* "polling", "grace" (timeout fired, a refresh in flight), "done"
    polls,         \* describe calls issued so far
    returned,      \* describe calls that have returned to the poller
    onlyPending,   \* every describe call that returned reported a pending status
    onlyPendingBefore, \* onlyPending before the last describe call that returned
    notfoundTick,  \* WaitForState's counter of consecutive polls that found nothing
    lastDescribe,  \* (filesystem, err) of the last describeFsxFileSystem that returned
    lastResult,    \* the last Result the refresh loop handed to WaitForState
    timerAt,       \* returned describe calls at the moment the timeout fired, -1 before
    werr           \* the error the waitFor... function returned (NilErr: success)

VARIABLES
    rtype,         \* the resource type of the instance
    id,            \* d.Id(), "" when unset
    attrs,         \* the attribute values of d
    remote,        \* the remote object: exists, id, state and attribute values
    op,            \* the handler called last: "none", "Create", "Read", "Update", "Delete"
    rerr,          \* the error the handler called last returned (NoError: success)
    seen,          \* what the describe call of the last Read reported, "none" without Read
    prevId,        \* d.Id() when the handler called last was entered
    log,           \* the API calls and waits of the handler called last, with their answers
    planned,       \* what the last Create or Update sent, NothingSent when none
    reads          \* Reads in succession since the last other step, at most 2

\* the value of planned when no configuration was sent
NothingSent == [sent |-> FALSE]

rvars == <<rtype, id, attrs, remote, op, rerr, seen, prevId, log, planned, reads>>

wvars == <<wkind, waction, wpc, polls, returned, onlyPending, onlyPendingBefore, notfoundTick,
           lastDescribe, lastResult, timerAt, werr>>

(***************************************************************************)
(* FSx values.                                                             *)
(***************************************************************************)
\* fsx.FileSystemLifecycle* values
Lifecycles == {"AVAILABLE", "CREATING", "DELETING", "FAILED", "MISCONFIGURED", "UPDATING"}
\* fsx.Status* values of an administrative action
Statuses == {"FAILED", "IN_PROGRESS", "PENDING", "COMPLETED", "UPDATED_OPTIMIZING"}
\* fsx.AdministrativeActionType* values
ActionTypes == {"FILE_SYSTEM_UPDATE", "STORAGE_OPTIMIZATION"}
\* FailureDetails: NoDetails is the nil pointer, otherwise the Message
NoDetails == "<nil>"
FailureMessages == {"insufficient capacity"}

\* the nil *fsx.FileSystem
NilFs == [nil |-> TRUE, Lifecycle |-> "", FailureDetails |-> NoDetails,
          AdministrativeActions |-> <<>>]
\* an entry of FileSystem.AdministrativeActions: a nil pointer or an action
NilAction == [nil |-> TRUE, AdministrativeActionType |-> "", Status |-> ""]
ActionEntries ==
    {NilAction} \cup
    [nil : {FALSE}, AdministrativeActionType : ActionTypes, Status : Statuses]
\* the action lists of WaitSpec: no action or a single entry
ShortActionLists ==
    {<<>>} \cup {<<e>> : e \in ActionEntries}
\* the action lists of AdminSpec
ActionLists ==
    UNION {[1..n -> ActionEntries] : n \in 0..MaxActions}

\* the file systems a describe call is given to return: every lifecycle and
\* failure detail without actions, and every action list of lists on an
\* available one
FileSystems(lists) ==
    [nil : {FALSE}, Lifecycle : Lifecycles,
     FailureDetails : {NoDetails} \cup FailureMessages,
     AdministrativeActions : {<<>>}]
    \cup
    [nil : {FALSE}, Lifecycle : {"AVAILABLE"},
     FailureDetails : {NoDetails},
     AdministrativeActions : lists]

\* errors of the DescribeFileSystems call
NoApiError == "<nil>"
ErrCodeFileSystemNotFound == "FileSystemNotFound"
ErrCodeInternalServerError == "InternalServerError"
ApiErrors == {ErrCodeFileSystemNotFound, ErrCodeInternalServerError}

(***************************************************************************)
(* A DescribeFileSystemsPages outcome: whether a file system with another  *)
(* id is listed first, the file system with the requested id (NilFs: not   *)
(* listed), and the error the paging ends with.                            *)
(***************************************************************************)
DescribeResponses(lists) ==
    [otherFirst : BOOLEAN, listed : FileSystems(lists), err : {NoApiError}]
    \cup
    [otherFirst : BOOLEAN, listed : {NilFs}, err : {NoApiError} \cup ApiErrors]

\* describeFsxFileSystem: the listed file system whose id matches; the paging
\* error reaches the caller only when no page held it
describeFsxFileSystem(resp) ==
    IF ~resp.listed.nil
    THEN [filesystem |-> resp.listed, err |-> NoApiError]
    ELSE [filesystem |-> NilFs, err |-> resp.err]

\* a refresh result (interface{}, string, error)
Refreshed(res, state, err) == [res |-> res, state |-> state, err |-> err]

\* refreshFsxFileSystemLifecycle without the FileSystemNotFound branch
refreshLifecycleNotFoundReturned(resp) ==
    LET d == describeFsxFileSystem(resp) IN
    IF d.err # NoApiError THEN Refreshed(NilFs, "", d.err)
    ELSE IF d.filesystem.nil THEN Refreshed(NilFs, "", NoApiError)
    ELSE Refreshed(d.filesystem, d.filesystem.Lifecycle, NoApiError)

\* refreshFsxFileSystemLifecycle
refreshFsxFileSystemLifecycle(resp) ==
    LET d == describeFsxFileSystem(resp) IN
    IF d.err = ErrCodeFileSystemNotFound THEN Refreshed(NilFs, "", NoApiError)
    ELSE IF d.err # NoApiError THEN Refreshed(NilFs, "", d.err)
    ELSE IF d.filesystem.nil THEN Refreshed(NilFs, "", NoApiError)
    ELSE Refreshed(d.filesystem, d.filesystem.Lifecycle, NoApiError)

\* the loop over the actions without the test of the action type
RECURSIVE ActionStatusAnyType(_, _, _)
ActionStatusAnyType(actions, action, i) ==
    IF i > Len(actions) THEN "COMPLETED"
    ELSE IF actions[i].nil THEN ActionStatusAnyType(actions, action, i + 1)
    ELSE actions[i].Status

\* the loop over filesystem.AdministrativeActions from index i on
RECURSIVE ActionStatusFrom(_, _, _)
ActionStatusFrom(actions, action, i) ==
    IF i > Len(actions) THEN "COMPLETED"
    ELSE IF actions[i].nil THEN ActionStatusFrom(actions, action, i + 1)
    ELSE IF actions[i].AdministrativeActionType = action THEN actions[i].Status
    ELSE ActionStatusFrom(actions, action, i + 1)

\* the administrative-action refresh swallowing every describe error
refreshActionsEveryErrorSwallowed(resp, action) ==
    LET d == describeFsxFileSystem(resp) IN
    IF d.err # NoApiError THEN Refreshed(NilFs, "", NoApiError)
    ELSE IF d.filesystem.nil THEN Refreshed(NilFs, "", NoApiError)
    ELSE Refreshed(d.filesystem,
                   ActionStatusFrom(d.filesystem.AdministrativeActions, action, 1),
                   NoApiError)

\* refreshFsxFileSystemAdministrativeActionsStatusFileSystemUpdate
refreshFsxFileSystemAdministrativeActionsStatusFileSystemUpdate(resp, action) ==
    LET d == describeFsxFileSystem(resp) IN
    IF d.err = ErrCodeFileSystemNotFound THEN Refreshed(NilFs, "", NoApiError)
    ELSE IF d.err # NoApiError THEN Refreshed(NilFs, "", d.err)
    ELSE IF d.filesystem.nil THEN Refreshed(NilFs, "", NoApiError)
    ELSE Refreshed(d.filesystem,
                   ActionStatusFrom(d.filesystem.AdministrativeActions, action, 1),
                   NoApiError)

(***************************************************************************)
(* resource.StateChangeConf.WaitForState, as the waiters call it.          *)
(***************************************************************************)
WaitKinds == {"creation", "deletion", "update", "adminaction"}

\* StateChangeConf.Pending of each waitFor... function
Pending(k) ==
    CASE k = "creation" -> {"CREATING"}
      [] k = "deletion" -> {"AVAILABLE", "DELETING"}
      [] k = "update" -> {"UPDATING"}
      [] k = "adminaction" -> {"IN_PROGRESS", "PENDING"}

\* the targets with the update wait given the deletion wait's empty target
TargetUpdateAbsence(k) ==
    CASE k = "creation" -> {"AVAILABLE"}
      [] k = "deletion" -> {}
      [] k = "update" -> {}
      [] k = "adminaction" -> {"COMPLETED", "UPDATED_OPTIMIZING"}

\* StateChangeConf.Target of each waitFor... function
Target(k) ==
    CASE k = "creation" -> {"AVAILABLE"}
      [] k = "deletion" -> {}
      [] k = "update" -> {"AVAILABLE"}
      [] k = "adminaction" -> {"COMPLETED", "UPDATED_OPTIMIZING"}

\* StateChangeConf.Refresh of each waitFor... function
Refresh(k, action, resp) ==
    IF k = "adminaction"
    THEN refreshFsxFileSystemAdministrativeActionsStatusFileSystemUpdate(resp, action)
    ELSE refreshFsxFileSystemLifecycle(resp)

\* StateChangeConf.NotFoundChecks: none of the waiters sets it, WaitForState
\* then uses its default
NotFoundChecks == 20

\* errors: the kind, and the LastError and LastState of the
\* resource.TimeoutError, UnexpectedStateError and NotFoundError kinds
NoError == "<nil>"
Err(kind, lastError, lastState) ==
    [kind |-> kind, LastError |-> lastError, LastState |-> lastState]
NilErr == Err(NoError, NoError, "")

\* WaitForState's Result{}
EmptyResult == [Result |-> NilFs, State |-> "", Error |-> NoError, Done |-> FALSE]

\* the pass of the refresh loop asking for the target state twice in a row: a
\* first target state does not stop the loop
LoopStepTargetTwice(k, r, tick) ==
    LET res(error, done) ==
            [Result |-> r.res, State |-> r.state, Error |-> error, Done |-> done]
    IN
    IF r.err # NoApiError
    THEN [result |-> res(r.err, FALSE), stop |-> TRUE, tick |-> tick]
    ELSE IF r.res.nil /\ Target(k) = {}
    THEN [result |-> res(NoError, TRUE), stop |-> TRUE, tick |-> tick]
    ELSE IF r.res.nil
    THEN IF tick + 1 > NotFoundChecks
         THEN [result |-> res("NotFoundError", FALSE), stop |-> TRUE, tick |-> tick + 1]
         ELSE [result |-> res(NoError, FALSE), stop |-> FALSE, tick |-> tick + 1]
    ELSE IF r.state \in Target(k)
    THEN [result |-> res(NoError, FALSE), stop |-> FALSE, tick |-> 0]
    ELSE IF r.state \in Pending(k)
    THEN [result |-> res(NoError, FALSE), stop |-> FALSE, tick |-> 0]
    ELSE IF Pending(k) # {}
    THEN [result |-> res("UnexpectedStateError", FALSE), stop |-> TRUE, tick |-> 0]
    ELSE [result |-> res(NoError, FALSE), stop |-> FALSE, tick |-> 0]

\* the pass of the refresh loop taking a state outside both sets for one more
\* pending state
LoopStepUnexpectedPending(k, r, tick) ==
    LET res(error, done) ==
            [Result |-> r.res, State |-> r.state, Error |-> error, Done |-> done]
    IN
    IF r.err # NoApiError
    THEN [result |-> res(r.err, FALSE), stop |-> TRUE, tick |-> tick]
    ELSE IF r.res.nil /\ Target(k) = {}
    THEN [result |-> res(NoError, TRUE), stop |-> TRUE, tick |-> tick]
    ELSE IF r.res.nil
    THEN IF tick + 1 > NotFoundChecks
         THEN [result |-> res("NotFoundError", FALSE), stop |-> TRUE, tick |-> tick + 1]
         ELSE [result |-> res(NoError, FALSE), stop |-> FALSE, tick |-> tick + 1]
    ELSE IF r.state \in Target(k)
    THEN [result |-> res(NoError, TRUE), stop |-> TRUE, tick |-> 0]
    ELSE [result |-> res(NoError, FALSE), stop |-> FALSE, tick |-> 0]

\* One pass of WaitForState's refresh loop over a refresh result r, with tick
\* the value of notfoundTick: the Result handed over, whether the loop stops,
\* and the new notfoundTick.
LoopStep(k, r, tick) ==
    LET res(error, done) ==
            [Result |-> r.res, State |-> r.state, Error |-> error, Done |-> done]
    IN
    IF r.err # NoApiError
    THEN [result |-> res(r.err, FALSE), stop |-> TRUE, tick |-> tick]
    ELSE IF r.res.nil /\ Target(k) = {}
    THEN [result |-> res(NoError, TRUE), stop |-> TRUE, tick |-> tick]
    ELSE IF r.res.nil
    THEN IF tick + 1 > NotFoundChecks
         THEN [result |-> res("NotFoundError", FALSE), stop |-> TRUE, tick |-> tick + 1]
         ELSE [result |-> res(NoError, FALSE), stop |-> FALSE, tick |-> tick + 1]
    ELSE IF r.state \in Target(k)
    THEN [result |-> res(NoError, TRUE), stop |-> TRUE, tick |-> 0]
    ELSE IF r.state \in Pending(k)
    THEN [result |-> res(NoError, FALSE), stop |-> FALSE, tick |-> 0]
    ELSE IF Pending(k) # {}
    THEN [result |-> res("UnexpectedStateError", FALSE), stop |-> TRUE, tick |-> 0]
    ELSE [result |-> res(NoError, FALSE), stop |-> FALSE, tick |-> 0]

\* WaitForState's return once the refresh loop has stopped before the
\* timeout: the result and the error of the last Result
ReturnLast(last) ==
    [output |-> last.Result,
     err |-> IF last.Error = NoError THEN NilErr ELSE Err(last.Error, NoError, last.State)]

\* WaitForState's return after the timeout: no result, and a TimeoutError
\* carrying the error and the state of the last Result
ReturnTimeout(last) ==
    [output |-> NilFs, err |-> Err("TimeoutError", last.Error, last.State)]

\* tfresource.SetLastError: the cause of a timeout or unexpected-state error
SetLastError(err, lastErr) ==
    IF err.kind \in {"TimeoutError", "UnexpectedStateError"}
    THEN [err EXCEPT !.LastError = lastErr]
    ELSE err

\* the statements after stateConf.WaitForState() in waitForFsxFileSystemCreation
waitForFsxFileSystemCreation(ret) ==
    IF ~ret.output.nil /\ ret.output.FailureDetails # NoDetails
    THEN SetLastError(ret.err, ret.output.FailureDetails)
    ELSE ret.err

\* the statements after stateConf.WaitForState() in waitForFsxFileSystemDeletion
waitForFsxFileSystemDeletion(ret) ==
    IF ~ret.output.nil /\ ret.output.FailureDetails # NoDetails
    THEN SetLastError(ret.err, ret.output.FailureDetails)
    ELSE ret.err

\* waitForFsxFileSystemUpdate drops the result
waitForFsxFileSystemUpdate(ret) == ret.err

\* waitForFsxFileSystemUpdateAdministrativeActionsStatusFileSystemUpdate drops
\* the result
waitForFsxFileSystemUpdateAdministrativeActionsStatusFileSystemUpdate(ret) == ret.err

\* the error the wait of kind k returns for WaitForState's return ret
WaitReturn(k, ret) ==
    CASE k = "creation" -> waitForFsxFileSystemCreation(ret)
      [] k = "deletion" -> waitForFsxFileSystemDeletion(ret)
      [] k = "update" -> waitForFsxFileSystemUpdate(ret)
      [] k = "adminaction" ->
            waitForFsxFileSystemUpdateAdministrativeActionsStatusFileSystemUpdate(ret)

\* no resource handler runs during a wait
NoResource ==
    /\ rtype = "<none>"
    /\ id = ""
    /\ attrs = <<>>
    /\ remote = <<>>
    /\ op = "none"
    /\ rerr = NoError
    /\ seen = "none"
    /\ prevId = ""
    /\ log = <<>>
    /\ planned = NothingSent
    /\ reads = 0

WInit ==
    /\ wkind \in WaitKinds
    /\ waction \in IF wkind = "adminaction" THEN ActionTypes ELSE {"FILE_SYSTEM_UPDATE"}
    /\ wpc = "polling"
    /\ polls = 0
    /\ returned = 0
    /\ onlyPending = TRUE
    /\ onlyPendingBefore = TRUE
    /\ notfoundTick = 0
    /\ lastDescribe = [filesystem |-> NilFs, err |-> NoApiError]
    /\ lastResult = EmptyResult
    /\ timerAt = -1
    /\ werr = NilErr
    /\ NoResource

\* the bookkeeping of a describe call that returned resp
Observe(resp, step) ==
    /\ returned' = returned + 1
    /\ lastDescribe' = describeFsxFileSystem(resp)
    /\ lastResult' = step.result
    /\ notfoundTick' = step.tick
    /\ onlyPendingBefore' = onlyPending
    /\ onlyPending' = (/\ onlyPending
                       /\ ~step.result.Result.nil
                       /\ step.result.Error = NoError
                       /\ step.result.State \in Pending(wkind))

\* A pass of the refresh loop before the timeout, with at most cap passes and
\* file systems listing the actions of lists: the describe call is made and
\* returns; the wait returns when the loop stops.
PollOver(cap, lists) ==
    /\ wpc = "polling"
    /\ returned < cap
    /\ \E resp \in DescribeResponses(lists) :
        LET step == LoopStep(wkind, Refresh(wkind, waction, resp), notfoundTick) IN
        /\ Observe(resp, step)
        /\ polls' = polls + 1
        /\ wpc' = IF step.stop THEN "done" ELSE "polling"
        /\ werr' = IF step.stop THEN WaitReturn(wkind, ReturnLast(step.result)) ELSE werr
    /\ UNCHANGED rvars
    /\ UNCHANGED <<wkind, waction, timerAt>>

Poll == PollOver(MaxPolls, ShortActionLists)

AdminPoll == PollOver(MaxAdminPolls, ActionLists)

\* The timeout fires while the refresh loop sleeps between two describe
\* calls (or in the initial Delay): the loop is cancelled.
TimeoutSleeping ==
    /\ wpc = "polling"
    /\ wpc' = "done"
    /\ timerAt' = returned
    /\ werr' = WaitReturn(wkind, ReturnTimeout(lastResult))
    /\ UNCHANGED rvars
    /\ UNCHANGED <<wkind, waction, polls, returned, onlyPending, onlyPendingBefore,
                   notfoundTick,
                   lastDescribe, lastResult>>

\* The timeout fires while a describe call is in flight: WaitForState starts
\* the refresh grace period.
TimeoutInFlight ==
    /\ wpc = "polling"
    /\ wpc' = "grace"
    /\ timerAt' = returned
    /\ polls' = polls + 1
    /\ UNCHANGED rvars
    /\ UNCHANGED <<wkind, waction, returned, onlyPending, onlyPendingBefore,
                   notfoundTick,
                   lastDescribe, lastResult, werr>>

\* the timeout leaving the refresh loop running: after the describe call in
\* flight the loop goes on as before the timeout
GracePollNotCancelled(lists) ==
    /\ wpc = "grace"
    /\ \E resp \in DescribeResponses(lists) :
        LET step == LoopStep(wkind, Refresh(wkind, waction, resp), notfoundTick) IN
        /\ Observe(resp, step)
        /\ wpc' = IF step.stop THEN "done" ELSE "grace"
        /\ werr' = IF step.stop THEN WaitReturn(wkind, ReturnLast(step.result)) ELSE werr
    /\ UNCHANGED rvars
    /\ UNCHANGED <<wkind, waction, polls, timerAt>>

\* The describe call in flight returns within the grace period: a Done
\* result is a success, any other one ends in the TimeoutError.
GracePollOver(lists) ==
    /\ wpc = "grace"
    /\ \E resp \in DescribeResponses(lists) :
        LET step == LoopStep(wkind, Refresh(wkind, waction, resp), notfoundTick) IN
        /\ Observe(resp, step)
        /\ werr' = IF step.result.Done
                   THEN WaitReturn(wkind, ReturnLast(step.result))
                   ELSE WaitReturn(wkind, ReturnTimeout(step.result))
    /\ wpc' = "done"
    /\ UNCHANGED rvars
    /\ UNCHANGED <<wkind, waction, polls, timerAt>>

GracePoll == GracePollOver(ShortActionLists)

AdminGracePoll == GracePollOver(ActionLists)

\* The grace period ends before the describe call in flight returns.
GraceExpired ==
    /\ wpc = "grace"
    /\ wpc' = "done"
    /\ werr' = WaitReturn(wkind, ReturnTimeout(lastResult))
    /\ UNCHANGED rvars
    /\ UNCHANGED <<wkind, waction, polls, returned, onlyPending, onlyPendingBefore,
                   notfoundTick,
                   lastDescribe, lastResult, timerAt>>

WNext ==
    \/ Poll
    \/ TimeoutSleeping
    \/ TimeoutInFlight
    \/ GracePoll
    \/ GraceExpired

WaitSpec == WInit /\ [][WNext]_wvars

\* time passes: the timeout fires and a describe call in flight returns or
\* the grace period ends
WaitLiveSpec == WaitSpec /\ WF_wvars(WNext)

\* the administrative-action wait alone, over longer action lists
AInit ==
    /\ WInit
    /\ wkind = "adminaction"

ANext ==
    \/ AdminPoll
    \/ TimeoutSleeping
    \/ TimeoutInFlight
    \/ AdminGracePoll
    \/ GraceExpired

AdminSpec == AInit /\ [][ANext]_wvars

(***************************************************************************)
(* The resource handlers. A handler runs to completion in one step; the    *)
(* answers of its API calls and waits are its inputs.                      *)
(***************************************************************************)
ResourceTypes ==
    {"transit_gateway_peering_attachment", "carrier_gateway", "dax_parameter_group",
     "gamelift_alias", "servicecatalog_constraint", "ses_active_receipt_rule_set",
     "securityhub_organization_configuration"}

\* meta.(*client.AWSClient).AccountID
AccountID == "123456789012"
\* the identifiers the create calls hand out
ServerIds == {"id-1", "id-2"}
\* string values of the configuration
Names == {"a", "b"}
\* a tag map, taken as a whole
TagMaps == {"{}", "{k=v}"}

\* the state of d and of the remote object after a handler, its error, and
\* what the describe call of its Read reported
Done(i, a, rem, err, s) ==
    [id |-> i, attrs |-> a, remote |-> rem, err |-> err, seen |-> s, log |-> <<>>]

\* an API call or a wait of a handler and its answer
Call(api, answer) == [api |-> api, answer |-> answer]

\* the handler made the calls before it went on to return r
Called(calls, r) == [r EXCEPT !.log = calls \o @]

\* the remote object before it exists
NoRemote == [exists |-> FALSE, id |-> "", state |-> "", vals |-> <<>>]

\* what a describe call reports to Read: the answer drawn, or not-found when
\* the call is answered truthfully and the object does not exist under that id
Described(i, rem, answer) ==
    IF answer = "ok" /\ (~rem.exists \/ rem.id # i) THEN "notfound" ELSE answer

(***************************************************************************)
(* EC2 transit gateway peering attachment.                                 *)
(***************************************************************************)
TgwAttachmentConfigs ==
    [peer_account_id : {"", "210987654321"}, peer_region : {"us-west-2"},
     peer_transit_gateway_id : {"tgw-peer"}, transit_gateway_id : {"tgw-1"},
     tags : TagMaps, tags_all : {"{}"}]

\* the Read that returns the not-found error of the describe call
TgwPeeringAttachmentReadNotFoundReturned(i, a, rem, in) ==
    LET seenNow == Described(i, rem, in.describe) IN
    Called(<<Call("describe", seenNow)>>,
    IF seenNow = "notfound" THEN Done(i, a, rem, "error reading", "notfound")
    ELSE IF seenNow = "error" THEN Done(i, a, rem, "error reading", "error")
    ELSE IF seenNow = "empty" THEN Done("", a, rem, NoError, "empty")
    ELSE IF rem.state \in {"deleting", "deleted"} THEN Done("", a, rem, NoError, "deleted")
    ELSE Done(i,
              [a EXCEPT !.peer_account_id = rem.vals.accepter_owner_id,
                        !.peer_region = rem.vals.accepter_region,
                        !.peer_transit_gateway_id = rem.vals.accepter_transit_gateway_id,
                        !.transit_gateway_id = rem.vals.requester_transit_gateway_id,
                        !.tags = rem.vals.tags,
                        !.tags_all = rem.vals.tags],
              rem, NoError, "found"))

\* resourceAwsEc2TransitGatewayPeeringAttachmentRead
resourceAwsEc2TransitGatewayPeeringAttachmentRead(i, a, rem, in) ==
    LET seenNow == Described(i, rem, in.describe) IN
    Called(<<Call("describe", seenNow)>>,
    IF seenNow = "notfound" THEN Done("", a, rem, NoError, "notfound")
    ELSE IF seenNow = "error" THEN Done(i, a, rem, "error reading", "error")
    ELSE IF seenNow = "empty" THEN Done("", a, rem, NoError, "empty")
    ELSE IF rem.state \in {"deleting", "deleted"} THEN Done("", a, rem, NoError, "deleted")
    ELSE Done(i,
              [a EXCEPT !.peer_account_id = rem.vals.accepter_owner_id,
                        !.peer_region = rem.vals.accepter_region,
                        !.peer_transit_gateway_id = rem.vals.accepter_transit_gateway_id,
                        !.transit_gateway_id = rem.vals.requester_transit_gateway_id,
                        !.tags = rem.vals.tags,
                        !.tags_all = rem.vals.tags],
              rem, NoError, "found"))

\* resourceAwsEc2TransitGatewayPeeringAttachmentCreate
resourceAwsEc2TransitGatewayPeeringAttachmentCreate(a, rem, in) ==
    LET peerAccountId == IF a.peer_account_id # "" THEN a.peer_account_id ELSE AccountID
        created == [exists |-> TRUE, id |-> in.newId,
                    state |-> IF in.wait = "ok" THEN "available" ELSE "pending",
                    vals |-> [accepter_owner_id |-> peerAccountId,
                              accepter_region |-> a.peer_region,
                              accepter_transit_gateway_id |-> a.peer_transit_gateway_id,
                              requester_transit_gateway_id |-> a.transit_gateway_id,
                              tags |-> a.tags]]
    IN
    IF in.call # "ok"
    THEN Called(<<Call("create", in.call)>>, Done("", a, rem, "error creating", "none"))
    ELSE IF in.wait # "ok"
    THEN Called(<<Call("create", "ok"), Call("createwait", in.wait)>>,
                Done(in.newId, a, created, "error waiting", "none"))
    ELSE Called(<<Call("create", "ok"), Call("createwait", "ok")>>,
                resourceAwsEc2TransitGatewayPeeringAttachmentRead(in.newId, a, created, in))

\* resourceAwsEc2TransitGatewayPeeringAttachmentUpdate: a holds the new
\* configuration, old the attributes before it
resourceAwsEc2TransitGatewayPeeringAttachmentUpdate(i, a, old, rem, in) ==
    IF a.tags_all # old.tags_all
    THEN Called(<<Call("tags", in.tags)>>,
                IF in.tags # "ok" THEN Done(i, a, rem, "error updating tags", "none")
                ELSE Done(i, a,
                          IF rem.exists THEN [rem EXCEPT !.vals.tags = a.tags_all] ELSE rem,
                          NoError, "none"))
    ELSE Done(i, a, rem, NoError, "none")

\* resourceAwsEc2TransitGatewayPeeringAttachmentDelete
resourceAwsEc2TransitGatewayPeeringAttachmentDelete(i, a, rem, in) ==
    LET answer == IF in.call = "ok" /\ (~rem.exists \/ rem.id # i) THEN "notfound"
                  ELSE in.call
    IN
    IF answer = "notfound"
    THEN Called(<<Call("delete", answer)>>, Done(i, a, rem, NoError, "none"))
    ELSE IF answer # "ok"
    THEN Called(<<Call("delete", answer)>>, Done(i, a, rem, "error deleting", "none"))
    ELSE IF in.wait # "ok"
    THEN Called(<<Call("delete", "ok"), Call("deletewait", in.wait)>>,
                Done(i, a, [rem EXCEPT !.state = "deleting"], "error waiting", "none"))
    ELSE Called(<<Call("delete", "ok"), Call("deletewait", "ok")>>,
                Done(i, a, [rem EXCEPT !.state = "deleted"], NoError, "none"))

(***************************************************************************)
(* EC2 carrier gateway.                                                    *)
(***************************************************************************)
CarrierGatewayConfigs ==
    [arn : {<<>>}, owner_id : {""}, vpc_id : {"vpc-1"}, tags : TagMaps, tags_all : {"{}"}]

\* the arn.ARN{...}.String() of resourceAwsEc2CarrierGatewayRead
CarrierGatewayArn(i, owner) == <<"ec2", owner, "carrier-gateway", i>>

\* resourceAwsEc2CarrierGatewayRead
resourceAwsEc2CarrierGatewayRead(i, a, rem, in) ==
    LET seenNow == Described(i, rem, in.describe) IN
    Called(<<Call("describe", seenNow)>>,
    IF seenNow = "notfound" THEN Done("", a, rem, NoError, "notfound")
    ELSE IF seenNow = "error" THEN Done(i, a, rem, "error reading", "error")
    ELSE IF seenNow = "empty" THEN Done("", a, rem, NoError, "empty")
    ELSE IF rem.state = "deleted" THEN Done("", a, rem, NoError, "deleted")
    ELSE Done(i,
              [a EXCEPT !.arn = CarrierGatewayArn(i, rem.vals.owner_id),
                        !.owner_id = rem.vals.owner_id,
                        !.vpc_id = rem.vals.vpc_id,
                        !.tags = rem.vals.tags,
                        !.tags_all = rem.vals.tags],
              rem, NoError, "found"))

\* the Create that sets the id of d after the wait for availability
CarrierGatewayCreateSetsIdAfterWait(a, rem, in) ==
    LET created == [exists |-> TRUE, id |-> in.newId,
                    state |-> IF in.wait = "ok" THEN "available" ELSE "pending",
                    vals |-> [owner_id |-> AccountID, vpc_id |-> a.vpc_id,
                              tags |-> a.tags]]
    IN
    IF in.call # "ok"
    THEN Called(<<Call("create", in.call)>>, Done("", a, rem, "error creating", "none"))
    ELSE IF in.wait # "ok"
    THEN Called(<<Call("create", "ok"), Call("createwait", in.wait)>>,
                Done("", a, created, "error waiting", "none"))
    ELSE Called(<<Call("create", "ok"), Call("createwait", "ok")>>,
                resourceAwsEc2CarrierGatewayRead(in.newId, a, created, in))

\* resourceAwsEc2CarrierGatewayCreate
resourceAwsEc2CarrierGatewayCreate(a, rem, in) ==
    LET created == [exists |-> TRUE, id |-> in.newId,
                    state |-> IF in.wait = "ok" THEN "available" ELSE "pending",
                    vals |-> [owner_id |-> AccountID, vpc_id |-> a.vpc_id,
                              tags |-> a.tags]]
    IN
    IF in.call # "ok"
    THEN Called(<<Call("create", in.call)>>, Done("", a, rem, "error creating", "none"))
    ELSE IF in.wait # "ok"
    THEN Called(<<Call("create", "ok"), Call("createwait", in.wait)>>,
                Done(in.newId, a, created, "error waiting", "none"))
    ELSE Called(<<Call("create", "ok"), Call("createwait", "ok")>>,
                resourceAwsEc2CarrierGatewayRead(in.newId, a, created, in))

\* resourceAwsEc2CarrierGatewayUpdate
resourceAwsEc2CarrierGatewayUpdate(i, a, old, rem, in) ==
    Called(IF a.tags_all # old.tags_all THEN <<Call("tags", in.tags)>> ELSE <<>>,
    IF a.tags_all # old.tags_all /\ in.tags # "ok"
    THEN Done(i, a, rem, "error updating tags", "none")
    ELSE resourceAwsEc2CarrierGatewayRead(
             i, a,
             IF a.tags_all # old.tags_all /\ rem.exists
             THEN [rem EXCEPT !.vals.tags = a.tags_all] ELSE rem,
             in))

\* resourceAwsEc2CarrierGatewayDelete
resourceAwsEc2CarrierGatewayDelete(i, a, rem, in) ==
    LET answer == IF in.call = "ok" /\ (~rem.exists \/ rem.id # i) THEN "notfound"
                  ELSE in.call
    IN
    IF answer = "notfound"
    THEN Called(<<Call("delete", answer)>>, Done(i, a, rem, NoError, "none"))
    ELSE IF answer # "ok"
    THEN Called(<<Call("delete", answer)>>, Done(i, a, rem, "error deleting", "none"))
    ELSE IF in.wait # "ok"
    THEN Called(<<Call("delete", "ok"), Call("deletewait", in.wait)>>,
                Done(i, a, [rem EXCEPT !.state = "deleting"], "error waiting", "none"))
    ELSE Called(<<Call("delete", "ok"), Call("deletewait", "ok")>>,
                Done(i, a, [rem EXCEPT !.state = "deleted"], NoError, "none"))

(***************************************************************************)
(* DAX parameter group.                                                    *)
(***************************************************************************)
\* parameters is a set of name/value pairs taken as a whole, "[]" the empty set
DaxParameterSets == {"[]", "[query-ttl=1]"}
\* the parameters DAX gives a new parameter group
DaxDefaultParameters == "[query-ttl=default]"
DaxParameterGroupConfigs ==
    [name : Names, description : {"", "d"}, parameters : DaxParameterSets]

\* the description DAX stores: " " when none was given
DaxStoredDescription(v) == IF v = "" THEN " " ELSE v

\* the Read that stores the description as DAX returns it
DaxReadKeepsSentinel(i, a, rem, in) ==
    LET seenNow == Described(i, rem, in.describe) IN
    Called(<<Call("describe", seenNow)>>,
    IF seenNow = "notfound" THEN Done("", a, rem, NoError, "notfound")
    ELSE IF seenNow = "error" THEN Done(i, a, rem, "error reading", "error")
    ELSE IF seenNow = "empty" THEN Done("", a, rem, NoError, "empty")
    ELSE Called(<<Call("describe2", in.describe2)>>,
    IF in.describe2 = "notfound" THEN Done("", a, rem, NoError, "notfound")
    ELSE IF in.describe2 # "ok" THEN Done(i, a, rem, "error reading", "error")
    ELSE Done(i,
              [a EXCEPT !.name = rem.vals.name,
                        !.description = rem.vals.description,
                        !.parameters = rem.vals.parameters],
              rem, NoError, "found")))

\* resourceAwsDaxParameterGroupRead
resourceAwsDaxParameterGroupRead(i, a, rem, in) ==
    LET seenNow == Described(i, rem, in.describe) IN
    Called(<<Call("describe", seenNow)>>,
    IF seenNow = "notfound" THEN Done("", a, rem, NoError, "notfound")
    ELSE IF seenNow = "error" THEN Done(i, a, rem, "error reading", "error")
    ELSE IF seenNow = "empty" THEN Done("", a, rem, NoError, "empty")
    ELSE Called(<<Call("describe2", in.describe2)>>,
    IF in.describe2 = "notfound" THEN Done("", a, rem, NoError, "notfound")
    ELSE IF in.describe2 # "ok" THEN Done(i, a, rem, "error reading", "error")
    ELSE Done(i,
              [a EXCEPT !.name = rem.vals.name,
                        !.description = IF rem.vals.description = " " THEN ""
                                        ELSE rem.vals.description,
                        !.parameters = rem.vals.parameters],
              rem, NoError, "found")))

\* resourceAwsDaxParameterGroupUpdate
resourceAwsDaxParameterGroupUpdate(i, a, old, rem, in) ==
    LET answer == IF in.call2 = "ok" /\ (~rem.exists \/ rem.id # i) THEN "notfound"
                  ELSE in.call2
    IN
    Called(<<Call("update", answer)>>,
    IF answer # "ok" THEN Done(i, a, rem, "error updating", "none")
    ELSE resourceAwsDaxParameterGroupRead(
             i, a,
             IF a.parameters # old.parameters
             THEN [rem EXCEPT !.vals.parameters = a.parameters] ELSE rem,
             in))

\* resourceAwsDaxParameterGroupCreate: old holds the attributes before the
\* configuration a
resourceAwsDaxParameterGroupCreate(a, old, rem, in) ==
    LET created == [exists |-> TRUE, id |-> a.name, state |-> "",
                    vals |-> [name |-> a.name,
                              description |-> DaxStoredDescription(a.description),
                              parameters |-> DaxDefaultParameters]]
    IN
    Called(<<Call("create", in.call)>>,
    IF in.call # "ok" THEN Done("", a, rem, "error creating", "none")
    ELSE IF a.parameters # "[]"
    THEN resourceAwsDaxParameterGroupUpdate(a.name, a, old, created, in)
    ELSE resourceAwsDaxParameterGroupRead(a.name, a, created, in))

\* the Delete that takes every error of its delete call for done
DaxParameterGroupDeleteIgnoresErrors(i, a, rem, in) ==
    LET answer == IF in.call = "ok" /\ (~rem.exists \/ rem.id # i) THEN "notfound"
                  ELSE in.call
    IN
    Called(<<Call("delete", answer)>>,
    IF answer # "ok" THEN Done(i, a, rem, NoError, "none")
    ELSE Done(i, a, NoRemote, NoError, "none"))

\* resourceAwsDaxParameterGroupDelete
resourceAwsDaxParameterGroupDelete(i, a, rem, in) ==
    LET answer == IF in.call = "ok" /\ (~rem.exists \/ rem.id # i) THEN "notfound"
                  ELSE in.call
    IN
    Called(<<Call("delete", answer)>>,
    IF answer = "notfound" THEN Done(i, a, rem, NoError, "none")
    ELSE IF answer # "ok" THEN Done(i, a, rem, "error deleting", "none")
    ELSE Done(i, a, NoRemote, NoError, "none"))

(***************************************************************************)
(* GameLift alias.                                                         *)
(***************************************************************************)
\* a nil pointer of a request or response field
NilString == "<nil>"
\* routing_strategy: a list of at most one block
RoutingStrategies ==
    {<<[type |-> "SIMPLE", fleet_id |-> "fleet-1", message |-> ""]>>,
     <<[type |-> "TERMINAL", fleet_id |-> "", message |-> "gone"]>>}
GameliftAliasConfigs ==
    [name : {"a"}, description : {"", "d"}, routing_strategy : RoutingStrategies,
     arn : {""}, tags : TagMaps, tags_all : {"{}"}]

\* expandGameliftRoutingStrategy
expandGameliftRoutingStrategy(cfg) ==
    IF Len(cfg) < 1 THEN [nil |-> TRUE, Type |-> NilString, FleetId |-> NilString,
                          Message |-> NilString]
    ELSE [nil |-> FALSE, Type |-> cfg[1].type,
          FleetId |-> IF cfg[1].fleet_id # "" THEN cfg[1].fleet_id ELSE NilString,
          Message |-> IF cfg[1].message # "" THEN cfg[1].message ELSE NilString]

\* flattenGameliftRoutingStrategy, with the keys it leaves out read back as ""
flattenGameliftRoutingStrategy(rs) ==
    IF rs.nil THEN <<>>
    ELSE <<[type |-> rs.Type,
            fleet_id |-> IF rs.FleetId # NilString THEN rs.FleetId ELSE "",
            message |-> IF rs.Message # NilString THEN rs.Message ELSE ""]>>

\* resourceAwsGameliftAliasRead
resourceAwsGameliftAliasRead(i, a, rem, in) ==
    LET seenNow == Described(i, rem, IF in.describe = "empty" THEN "notfound"
                                     ELSE in.describe)
        set == [a EXCEPT !.arn = rem.vals.arn,
                         !.description = IF rem.vals.description = NilString THEN ""
                                         ELSE rem.vals.description,
                         !.name = rem.vals.name,
                         !.routing_strategy =
                             flattenGameliftRoutingStrategy(rem.vals.routing_strategy)]
    IN
    Called(<<Call("describe", seenNow)>>,
    IF seenNow = "notfound" THEN Done("", a, rem, NoError, "notfound")
    ELSE IF seenNow = "error" THEN Done(i, a, rem, "error reading", "error")
    ELSE Called(<<Call("describe2", in.describe2)>>,
    IF in.describe2 # "ok" THEN Done(i, set, rem, "error listing tags", "found")
    ELSE Done(i, [set EXCEPT !.tags = rem.vals.tags, !.tags_all = rem.vals.tags],
              rem, NoError, "found")))

\* resourceAwsGameliftAliasCreate
resourceAwsGameliftAliasCreate(a, rem, in) ==
    LET created == [exists |-> TRUE, id |-> in.newId, state |-> "",
                    vals |-> [arn |-> <<"gamelift", "alias", in.newId>>,
                              name |-> a.name,
                              description |-> IF a.description # "" THEN a.description
                                              ELSE NilString,
                              routing_strategy |->
                                  expandGameliftRoutingStrategy(a.routing_strategy),
                              tags |-> a.tags]]
    IN
    Called(<<Call("create", in.call)>>,
    IF in.call # "ok" THEN Done("", a, rem, "error creating", "none")
    ELSE resourceAwsGameliftAliasRead(in.newId, a, created, in))

\* the Update that takes the new name as the id, as the Update of the SES
\* active receipt rule set does
GameliftAliasUpdateSetsId(i, a, old, rem, in) ==
    LET answer == IF in.call = "ok" /\ (~rem.exists \/ rem.id # i) THEN "notfound"
                  ELSE in.call
        updated == [rem EXCEPT !.vals.name = a.name,
                               !.vals.description = a.description,
                               !.vals.routing_strategy =
                                   expandGameliftRoutingStrategy(a.routing_strategy)]
    IN
    Called(<<Call("update", answer)>>,
    IF answer # "ok" THEN Done(i, a, rem, "error updating", "none")
    ELSE Done(a.name, a, updated, NoError, "none"))

\* resourceAwsGameliftAliasUpdate
resourceAwsGameliftAliasUpdate(i, a, old, rem, in) ==
    LET answer == IF in.call = "ok" /\ (~rem.exists \/ rem.id # i) THEN "notfound"
                  ELSE in.call
        updated == [rem EXCEPT !.vals.name = a.name,
                               !.vals.description = a.description,
                               !.vals.routing_strategy =
                                   expandGameliftRoutingStrategy(a.routing_strategy)]
    IN
    Called(<<Call("update", answer)>>,
    IF answer # "ok" THEN Done(i, a, rem, "error updating", "none")
    ELSE Called(IF a.tags_all # old.tags_all THEN <<Call("tags", in.tags)>> ELSE <<>>,
    IF a.tags_all # old.tags_all /\ in.tags # "ok"
    THEN Done(i, a, updated, "error updating tags", "none")
    ELSE resourceAwsGameliftAliasRead(
             i, a,
             IF a.tags_all # old.tags_all
             THEN [updated EXCEPT !.vals.tags = a.tags_all] ELSE updated,
             in)))

\* resourceAwsGameliftAliasDelete
resourceAwsGameliftAliasDelete(i, a, rem, in) ==
    LET answer == IF in.call = "ok" /\ (~rem.exists \/ rem.id # i) THEN "notfound"
                  ELSE in.call
    IN
    Called(<<Call("delete", answer)>>,
    IF answer # "ok" THEN Done(i, a, rem, "error deleting", "none")
    ELSE Done(i, a, NoRemote, NoError, "none"))

(***************************************************************************)
(* Service Catalog constraint.                                             *)
(***************************************************************************)
\* acceptLanguageEnglish
acceptLanguageEnglish == "en"
ConstraintConfigs ==
    [accept_language : {"en"}, description : {"", "d"}, owner : {""},
     parameters : {"{p1}"}, portfolio_id : {"port-1"}, product_id : {"prod-1"},
     status : {""}, type : {"LAUNCH"}]

\* the answers of CreateConstraint and UpdateConstraint: a response, a
\* response without ConstraintDetail, InvalidParametersException with
\* "profile does not exist", ResourceNotFoundException, another error
ConstraintAnswers == {"ok", "empty", "profile", "notfound", "error"}

\* resource.Retry over the answers of the successive calls, of which budget
\* return before the timeout; retryable are the answers the function wraps in
\* RetryableError. From call n on: the calls made, whether the timeout ended
\* the retries, and the error returned, the error of the last call when one
\* returned and the TimeoutError when none did.
RECURSIVE Retry(_, _, _, _)
Retry(answers, budget, retryable, n) ==
    IF n > budget
    THEN [calls |-> n - 1, last |-> IF n = 1 THEN "none" ELSE answers[n - 1],
          timeout |-> TRUE,
          err |-> IF n = 1 THEN "TimeoutError" ELSE answers[n - 1]]
    ELSE IF answers[n] \in {"ok", "empty"}
    THEN [calls |-> n, last |-> answers[n], timeout |-> FALSE, err |-> NoError]
    ELSE IF answers[n] \in retryable
    THEN Retry(answers, budget, retryable, n + 1)
    ELSE [calls |-> n, last |-> answers[n], timeout |-> FALSE, err |-> answers[n]]

\* tfresource.TimedOut: err is a resource.TimeoutError without a last error
TimedOut(err) == err = "TimeoutError"

\* the further call made after every end of the retry window
RetryThenOnceAfterAnyTimeout(answers, budget, retryable) ==
    LET r == Retry(answers, budget, retryable, 1) IN
    IF r.timeout
    THEN [calls |-> r.calls + 1, last |-> answers[MaxTries + 1], timeout |-> TRUE,
          err |-> IF answers[MaxTries + 1] \in {"ok", "empty"} THEN NoError
                  ELSE answers[MaxTries + 1]]
    ELSE r

\* resource.Retry and the call after tfresource.TimedOut(err): the calls made,
\* the answer that decides, and the error
RetryThenOnce(answers, budget, retryable) ==
    LET r == Retry(answers, budget, retryable, 1) IN
    IF TimedOut(r.err)
    THEN [calls |-> r.calls + 1, last |-> answers[MaxTries + 1], timeout |-> TRUE,
          err |-> IF answers[MaxTries + 1] \in {"ok", "empty"} THEN NoError
                  ELSE answers[MaxTries + 1]]
    ELSE r

\* the calls of a request api under RetryThenOnce that returned r: those
\* within resource.Retry, the timeout when it ended them, and the call after it
RetryCalls(api, answers, budget, retryable) ==
    LET w == Retry(answers, budget, retryable, 1)
        r == RetryThenOnce(answers, budget, retryable)
    IN
    [k \in 1..w.calls |-> Call(api, answers[k])]
    \o (IF w.timeout THEN <<Call("retry", "timeout")>> ELSE <<>>)
    \o (IF r.calls > w.calls THEN <<Call(api, r.last)>> ELSE <<>>)

\* resourceAwsServiceCatalogConstraintRead; new is d.IsNewResource() and
\* in.describe the outcome of waitConstraintReady
resourceAwsServiceCatalogConstraintRead(i, a, rem, in, new) ==
    LET seenNow == Described(i, rem, in.describe) IN
    Called(<<Call("describe", seenNow)>>,
    IF ~new /\ seenNow = "notfound" THEN Done("", a, rem, NoError, "notfound")
    ELSE IF seenNow \in {"notfound", "error"}
    THEN Done(i, a, rem, "error describing", seenNow)
    ELSE IF seenNow = "empty" THEN Done(i, a, rem, "empty response", "empty")
    ELSE Done(i,
              [a EXCEPT !.accept_language = IF a.accept_language = ""
                                            THEN acceptLanguageEnglish
                                            ELSE a.accept_language,
                        !.parameters = rem.vals.parameters,
                        !.status = rem.vals.status,
                        !.description = rem.vals.description,
                        !.owner = rem.vals.owner,
                        !.portfolio_id = rem.vals.portfolio_id,
                        !.product_id = rem.vals.product_id,
                        !.type = rem.vals.type],
              rem, NoError, "found"))

\* resourceAwsServiceCatalogConstraintCreate
resourceAwsServiceCatalogConstraintCreate(a, rem, in) ==
    LET r == RetryThenOnce(in.answers, in.budget, {"profile", "notfound"})
        created == [exists |-> TRUE, id |-> in.newId, state |-> "",
                    vals |-> [parameters |-> a.parameters, status |-> "AVAILABLE",
                              description |-> a.description, owner |-> AccountID,
                              portfolio_id |-> a.portfolio_id,
                              product_id |-> a.product_id, type |-> a.type]]
    IN
    Called(RetryCalls("create", in.answers, in.budget, {"profile", "notfound"}),
    IF r.err # NoError THEN Done("", a, rem, "error creating", "none")
    ELSE IF r.last = "empty" THEN Done("", a, created, "empty response", "none")
    ELSE resourceAwsServiceCatalogConstraintRead(in.newId, a, created, in, TRUE))

\* the Update that retries ResourceNotFound as the Create does
ConstraintUpdateRetriesNotFound(i, a, old, rem, in) ==
    LET r == RetryThenOnce(in.answers, in.budget, {"profile", "notfound"})
        updated == IF rem.exists /\ rem.id = i
                   THEN [rem EXCEPT !.vals.description =
                                        IF a.description # old.description
                                        THEN a.description ELSE @,
                                    !.vals.parameters =
                                        IF a.parameters # old.parameters
                                        THEN a.parameters ELSE @]
                   ELSE rem
    IN
    Called(RetryCalls("update", in.answers, in.budget, {"profile", "notfound"}),
    IF r.err # NoError THEN Done(i, a, rem, "error updating", "none")
    ELSE resourceAwsServiceCatalogConstraintRead(i, a, updated, in, FALSE))

\* resourceAwsServiceCatalogConstraintUpdate
resourceAwsServiceCatalogConstraintUpdate(i, a, old, rem, in) ==
    LET r == RetryThenOnce(in.answers, in.budget, {"profile"})
        updated == IF rem.exists /\ rem.id = i
                   THEN [rem EXCEPT !.vals.description =
                                        IF a.description # old.description
                                        THEN a.description ELSE @,
                                    !.vals.parameters =
                                        IF a.parameters # old.parameters
                                        THEN a.parameters ELSE @]
                   ELSE rem
    IN
    Called(RetryCalls("update", in.answers, in.budget, {"profile"}),
    IF r.err # NoError THEN Done(i, a, rem, "error updating", "none")
    ELSE resourceAwsServiceCatalogConstraintRead(i, a, updated, in, FALSE))

\* the Delete that returns without regard to the outcome of its wait
ConstraintDeleteIgnoresWait(i, a, rem, in) ==
    LET answer == IF in.call = "ok" /\ (~rem.exists \/ rem.id # i) THEN "notfound"
                  ELSE in.call
    IN
    Called(<<Call("delete", answer)>>,
    IF answer = "notfound" THEN Done(i, a, rem, NoError, "none")
    ELSE IF answer # "ok" THEN Done(i, a, rem, "error deleting", "none")
    ELSE Called(<<Call("deletewait", in.wait)>>,
                Done(i, a, IF in.wait = "error" THEN rem ELSE NoRemote, NoError, "none")))

\* resourceAwsServiceCatalogConstraintDelete; in.wait is the outcome of
\* waitConstraintDeleted
resourceAwsServiceCatalogConstraintDelete(i, a, rem, in) ==
    LET answer == IF in.call = "ok" /\ (~rem.exists \/ rem.id # i) THEN "notfound"
                  ELSE in.call
    IN
    Called(<<Call("delete", answer)>>,
    IF answer = "notfound" THEN Done(i, a, rem, NoError, "none")
    ELSE IF answer # "ok" THEN Done(i, a, rem, "error deleting", "none")
    ELSE Called(<<Call("deletewait", in.wait)>>,
    IF in.wait = "error" THEN Done(i, a, rem, "error waiting", "none")
    ELSE Done(i, a, NoRemote, NoError, "none")))

(***************************************************************************)
(* SES active receipt rule set. The remote object is the rule set that is  *)
(* active in the account, its id the name of that rule set.                *)
(***************************************************************************)
ActiveReceiptRuleSetConfigs == [rule_set_name : Names, arn : {<<>>}]

\* the arn.ARN{...}.String() of resourceAwsSesActiveReceiptRuleSetRead
ReceiptRuleSetArn(i) == <<"ses", AccountID, "receipt-rule-set", i>>

\* the Read that takes the name of the active rule set as the id of d, after
\* it built the arn
SesReadAdoptsActiveRuleSet(i, a, rem, in) ==
    LET seenNow == IF in.describe = "ok" /\ ~rem.exists THEN "empty" ELSE in.describe IN
    Called(<<Call("describe", seenNow)>>,
    IF seenNow = "notfound" THEN Done("", a, rem, NoError, "notfound")
    ELSE IF seenNow = "error" THEN Done(i, a, rem, "error reading", "error")
    ELSE IF seenNow = "empty" THEN Done("", a, rem, NoError, "empty")
    ELSE Done(rem.vals.name,
              [a EXCEPT !.rule_set_name = rem.vals.name, !.arn = ReceiptRuleSetArn(i)],
              rem, NoError, "found"))

\* resourceAwsSesActiveReceiptRuleSetRead
resourceAwsSesActiveReceiptRuleSetRead(i, a, rem, in) ==
    LET seenNow == IF in.describe = "ok" /\ ~rem.exists THEN "empty" ELSE in.describe IN
    Called(<<Call("describe", seenNow)>>,
    IF seenNow = "notfound" THEN Done("", a, rem, NoError, "notfound")
    ELSE IF seenNow = "error" THEN Done(i, a, rem, "error reading", "error")
    ELSE IF seenNow = "empty" THEN Done("", a, rem, NoError, "empty")
    ELSE Done(i, [a EXCEPT !.rule_set_name = rem.vals.name, !.arn = ReceiptRuleSetArn(i)],
              rem, NoError, "found"))

\* resourceAwsSesActiveReceiptRuleSetUpdate, also the Create of the resource
resourceAwsSesActiveReceiptRuleSetUpdate(i, a, rem, in) ==
    Called(<<Call("update", in.call)>>,
    IF in.call # "ok" THEN Done(i, a, rem, "error setting", "none")
    ELSE resourceAwsSesActiveReceiptRuleSetRead(
             a.rule_set_name, a,
             [exists |-> TRUE, id |-> a.rule_set_name, state |-> "",
              vals |-> [name |-> a.rule_set_name]],
             in))

\* resourceAwsSesActiveReceiptRuleSetDelete
resourceAwsSesActiveReceiptRuleSetDelete(i, a, rem, in) ==
    Called(<<Call("delete", in.call)>>,
    IF in.call # "ok" THEN Done(i, a, rem, "error deleting", "none")
    ELSE Done(i, a, NoRemote, NoError, "none"))

(***************************************************************************)
(* Security Hub organization configuration.                                *)
(***************************************************************************)
OrganizationConfigurationConfigs == [auto_enable : BOOLEAN]

\* resourceAwsSecurityHubOrganizationConfigurationRead
resourceAwsSecurityHubOrganizationConfigurationRead(i, a, rem, in) ==
    Called(<<Call("describe", in.describe)>>,
    IF in.describe # "ok" THEN Done(i, a, rem, "error reading", in.describe)
    ELSE Done(i, [a EXCEPT !.auto_enable = rem.vals.auto_enable], rem, NoError, "found"))

\* resourceAwsSecurityHubOrganizationConfigurationUpdate, also the Create of
\* the resource
resourceAwsSecurityHubOrganizationConfigurationUpdate(i, a, rem, in) ==
    Called(<<Call("update", in.call)>>,
    IF in.call # "ok" THEN Done(i, a, rem, "error updating", "none")
    ELSE resourceAwsSecurityHubOrganizationConfigurationRead(
             AccountID, a, [rem EXCEPT !.vals.auto_enable = a.auto_enable], in))

(***************************************************************************)
(* The calls of the handlers.                                              *)
(***************************************************************************)
\* the resource types with tags and tags_all
TaggedTypes == {"transit_gateway_peering_attachment", "carrier_gateway", "gamelift_alias"}
\* the EC2 resource types, whose objects stay listed in a deleted state
Ec2Types == {"transit_gateway_peering_attachment", "carrier_gateway"}

\* the configurations of a resource type
Configs(t) ==
    CASE t = "transit_gateway_peering_attachment" -> TgwAttachmentConfigs
      [] t = "carrier_gateway" -> CarrierGatewayConfigs
      [] t = "dax_parameter_group" -> DaxParameterGroupConfigs
      [] t = "gamelift_alias" -> GameliftAliasConfigs
      [] t = "servicecatalog_constraint" -> ConstraintConfigs
      [] t = "ses_active_receipt_rule_set" -> ActiveReceiptRuleSetConfigs
      [] t = "securityhub_organization_configuration" -> OrganizationConfigurationConfigs

\* the attributes of d before the first Create
BlankAttrs(t) ==
    CASE t = "transit_gateway_peering_attachment" ->
            [peer_account_id |-> "", peer_region |-> "", peer_transit_gateway_id |-> "",
             transit_gateway_id |-> "", tags |-> "{}", tags_all |-> "{}"]
      [] t = "carrier_gateway" ->
            [arn |-> <<>>, owner_id |-> "", vpc_id |-> "", tags |-> "{}", tags_all |-> "{}"]
      [] t = "dax_parameter_group" -> [name |-> "", description |-> "", parameters |-> "[]"]
      [] t = "gamelift_alias" ->
            [name |-> "", description |-> "", routing_strategy |-> <<>>, arn |-> "",
             tags |-> "{}", tags_all |-> "{}"]
      [] t = "servicecatalog_constraint" ->
            [accept_language |-> "", description |-> "", owner |-> "", parameters |-> "",
             portfolio_id |-> "", product_id |-> "", status |-> "", type |-> ""]
      [] t = "ses_active_receipt_rule_set" -> [rule_set_name |-> "", arn |-> <<>>]
      [] t = "securityhub_organization_configuration" -> [auto_enable |-> FALSE]

\* the planned attributes of a configuration: tags.SetTagsDiff plans tags_all
Planned(t, cfg) ==
    IF t \in TaggedTypes THEN [cfg EXCEPT !.tags_all = cfg.tags] ELSE cfg

\* the planned attributes of an Update of the attributes a: a change of the
\* attributes that are not ForceNew, the computed ones kept
UpdateConfigs(t, a) ==
    CASE t \in Ec2Types ->
            {[a EXCEPT !.tags = v, !.tags_all = v] : v \in TagMaps \ {a.tags}}
      [] t = "dax_parameter_group" ->
            {[a EXCEPT !.parameters = v] : v \in DaxParameterSets \ {a.parameters}}
      [] t = "gamelift_alias" ->
            {[a EXCEPT !.name = c.name, !.description = c.description,
                       !.routing_strategy = c.routing_strategy,
                       !.tags = c.tags, !.tags_all = c.tags] :
                c \in GameliftAliasConfigs} \ {a}
      [] t = "servicecatalog_constraint" ->
            {[a EXCEPT !.accept_language = c.accept_language,
                       !.description = c.description,
                       !.parameters = c.parameters] : c \in ConstraintConfigs} \ {a}
      [] t = "ses_active_receipt_rule_set" ->
            {[a EXCEPT !.rule_set_name = v] : v \in Names \ {a.rule_set_name}}
      [] t = "securityhub_organization_configuration" ->
            {[a EXCEPT !.auto_enable = ~a.auto_enable]}

\* the answers of the API calls and waits of one handler call
Inputs(calls, call2s, waits, describes, describe2s, tagss, ids, answerss, budgets) ==
    [call : calls, call2 : call2s, wait : waits, describe : describes,
     describe2 : describe2s, tags : tagss, newId : ids, answers : answerss,
     budget : budgets]

OkOrError == {"ok", "error"}
DeleteAnswers == {"ok", "notfound", "error"}
DescribeAnswers == {"ok", "notfound", "empty", "error"}
\* the answers of the successive calls of a retried request: some calls
\* answered with a retryable error, the later ones with one answer
RetryAnswers ==
    {[n \in 1..(MaxTries + 1) |-> IF n <= k THEN e ELSE final] :
        k \in 0..MaxTries, e \in {"profile", "notfound"}, final \in ConstraintAnswers}

\* the inputs of the handler o of the resource type t
OpInputs(t, o) ==
    LET U == {"ok"}
        noId == {""}
        noAns == {<<>>}
        noB == {0}
    IN
    CASE t \in Ec2Types /\ o = "Create" ->
            Inputs(OkOrError, U, OkOrError, DescribeAnswers, U, U, ServerIds, noAns, noB)
      [] t \in Ec2Types /\ o = "Read" ->
            Inputs(U, U, U, DescribeAnswers, U, U, noId, noAns, noB)
      [] t \in Ec2Types /\ o = "Update" ->
            Inputs(U, U, U, DescribeAnswers, U, OkOrError, noId, noAns, noB)
      [] t \in Ec2Types /\ o = "Delete" ->
            Inputs(DeleteAnswers, U, OkOrError, U, U, U, noId, noAns, noB)
      [] t = "dax_parameter_group" /\ o \in {"Create", "Update"} ->
            Inputs(OkOrError, OkOrError, U, DescribeAnswers, DeleteAnswers, U, noId,
                   noAns, noB)
      [] t = "dax_parameter_group" /\ o = "Read" ->
            Inputs(U, U, U, DescribeAnswers, DeleteAnswers, U, noId, noAns, noB)
      [] t = "gamelift_alias" /\ o = "Create" ->
            Inputs(OkOrError, U, U, DeleteAnswers, OkOrError, U, ServerIds, noAns, noB)
      [] t = "gamelift_alias" /\ o = "Read" ->
            Inputs(U, U, U, DeleteAnswers, OkOrError, U, noId, noAns, noB)
      [] t = "gamelift_alias" /\ o = "Update" ->
            Inputs(DeleteAnswers, U, U, DeleteAnswers, OkOrError, OkOrError, noId,
                   noAns, noB)
      [] t = "servicecatalog_constraint" /\ o = "Create" ->
            Inputs(U, U, U, DescribeAnswers, U, U, ServerIds, RetryAnswers, 0..MaxTries)
      [] t = "servicecatalog_constraint" /\ o = "Read" ->
            Inputs(U, U, U, DescribeAnswers, U, U, noId, noAns, noB)
      [] t = "servicecatalog_constraint" /\ o = "Update" ->
            Inputs(U, U, U, DescribeAnswers, U, U, noId, RetryAnswers, 0..MaxTries)
      [] t = "servicecatalog_constraint" /\ o = "Delete" ->
            Inputs(DeleteAnswers, U, DeleteAnswers, U, U, U, noId, noAns, noB)
      [] t = "ses_active_receipt_rule_set" /\ o \in {"Create", "Update"} ->
            Inputs(OkOrError, U, U, DescribeAnswers, U, U, noId, noAns, noB)
      [] t = "ses_active_receipt_rule_set" /\ o = "Read" ->
            Inputs(U, U, U, DescribeAnswers, U, U, noId, noAns, noB)
      [] t = "securityhub_organization_configuration" /\ o \in {"Create", "Update"} ->
            Inputs(OkOrError, U, U, DeleteAnswers, U, U, noId, noAns, noB)
      [] t = "securityhub_organization_configuration" /\ o = "Read" ->
            Inputs(U, U, U, DeleteAnswers, U, U, noId, noAns, noB)
      [] OTHER -> Inputs(DeleteAnswers, U, U, U, U, U, noId, noAns, noB)

\* schema.Resource.Create of each resource type
CreateOf(t, a, old, rem, in) ==
    CASE t = "transit_gateway_peering_attachment" ->
            resourceAwsEc2TransitGatewayPeeringAttachmentCreate(a, rem, in)
      [] t = "carrier_gateway" -> resourceAwsEc2CarrierGatewayCreate(a, rem, in)
      [] t = "dax_parameter_group" -> resourceAwsDaxParameterGroupCreate(a, old, rem, in)
      [] t = "gamelift_alias" -> resourceAwsGameliftAliasCreate(a, rem, in)
      [] t = "servicecatalog_constraint" ->
            resourceAwsServiceCatalogConstraintCreate(a, rem, in)
      [] t = "ses_active_receipt_rule_set" ->
            resourceAwsSesActiveReceiptRuleSetUpdate("", a, rem, in)
      [] t = "securityhub_organization_configuration" ->
            resourceAwsSecurityHubOrganizationConfigurationUpdate("", a, rem, in)

\* schema.Resource.Read of each resource type
ReadOf(t, i, a, rem, in) ==
    CASE t = "transit_gateway_peering_attachment" ->
            resourceAwsEc2TransitGatewayPeeringAttachmentRead(i, a, rem, in)
      [] t = "carrier_gateway" -> resourceAwsEc2CarrierGatewayRead(i, a, rem, in)
      [] t = "dax_parameter_group" -> resourceAwsDaxParameterGroupRead(i, a, rem, in)
      [] t = "gamelift_alias" -> resourceAwsGameliftAliasRead(i, a, rem, in)
      [] t = "servicecatalog_constraint" ->
            resourceAwsServiceCatalogConstraintRead(i, a, rem, in, FALSE)
      [] t = "ses_active_receipt_rule_set" ->
            resourceAwsSesActiveReceiptRuleSetRead(i, a, rem, in)
      [] t = "securityhub_organization_configuration" ->
            resourceAwsSecurityHubOrganizationConfigurationRead(i, a, rem, in)

\* schema.Resource.Update of each resource type
UpdateOf(t, i, a, old, rem, in) ==
    CASE t = "transit_gateway_peering_attachment" ->
            resourceAwsEc2TransitGatewayPeeringAttachmentUpdate(i, a, old, rem, in)
      [] t = "carrier_gateway" -> resourceAwsEc2CarrierGatewayUpdate(i, a, old, rem, in)
      [] t = "dax_parameter_group" ->
            resourceAwsDaxParameterGroupUpdate(i, a, old, rem, in)
      [] t = "gamelift_alias" -> resourceAwsGameliftAliasUpdate(i, a, old, rem, in)
      [] t = "servicecatalog_constraint" ->
            resourceAwsServiceCatalogConstraintUpdate(i, a, old, rem, in)
      [] t = "ses_active_receipt_rule_set" ->
            resourceAwsSesActiveReceiptRuleSetUpdate(i, a, rem, in)
      [] t = "securityhub_organization_configuration" ->
            resourceAwsSecurityHubOrganizationConfigurationUpdate(i, a, rem, in)

\* schema.Resource.Delete of each resource type; schema.Noop for the
\* Security Hub organization configuration
DeleteOf(t, i, a, rem, in) ==
    CASE t = "transit_gateway_peering_attachment" ->
            resourceAwsEc2TransitGatewayPeeringAttachmentDelete(i, a, rem, in)
      [] t = "carrier_gateway" -> resourceAwsEc2CarrierGatewayDelete(i, a, rem, in)
      [] t = "dax_parameter_group" -> resourceAwsDaxParameterGroupDelete(i, a, rem, in)
      [] t = "gamelift_alias" -> resourceAwsGameliftAliasDelete(i, a, rem, in)
      [] t = "servicecatalog_constraint" ->
            resourceAwsServiceCatalogConstraintDelete(i, a, rem, in)
      [] t = "ses_active_receipt_rule_set" ->
            resourceAwsSesActiveReceiptRuleSetDelete(i, a, rem, in)
      [] t = "securityhub_organization_configuration" -> Done(i, a, rem, NoError, "none")

(***************************************************************************)
(* The life of one resource: Terraform calls Create while d has no id and   *)
(* Read, Update and Delete while it has one; the remote object also changes *)
(* outside Terraform.                                                       *)
(***************************************************************************)
\* the remote object before the first Create: the organization configuration
\* of Security Hub exists in the account, the other objects do not
InitialRemote(t) ==
    IF t = "securityhub_organization_configuration"
    THEN [exists |-> TRUE, id |-> AccountID, state |-> "", vals |-> [auto_enable |-> FALSE]]
    ELSE NoRemote

\* no wait runs while a handler is followed
NoWait ==
    /\ wkind = "creation"
    /\ waction = "FILE_SYSTEM_UPDATE"
    /\ wpc = "idle"
    /\ polls = 0
    /\ returned = 0
    /\ onlyPending = TRUE
    /\ onlyPendingBefore = TRUE
    /\ notfoundTick = 0
    /\ lastDescribe = [filesystem |-> NilFs, err |-> NoApiError]
    /\ lastResult = EmptyResult
    /\ timerAt = -1
    /\ werr = NilErr

RInit ==
    /\ rtype \in ResourceTypes
    /\ id = ""
    /\ attrs = BlankAttrs(rtype)
    /\ remote = InitialRemote(rtype)
    /\ op = "none"
    /\ rerr = NoError
    /\ seen = "none"
    /\ prevId = ""
    /\ log = <<>>
    /\ planned = NothingSent
    /\ reads = 0
    /\ NoWait

\* The handler o has returned r: Terraform keeps the state of d, and no state
\* when d has no id.
Apply(o, r) ==
    /\ op' = o
    /\ prevId' = id
    /\ id' = r.id
    /\ attrs' = IF r.id = "" THEN BlankAttrs(rtype) ELSE r.attrs
    /\ remote' = r.remote
    /\ rerr' = r.err
    /\ seen' = r.seen
    /\ log' = r.log
    /\ UNCHANGED rtype
    /\ UNCHANGED wvars

\* the handler that returned r went on to its Read
ReachedRead(r) == \E k \in 1..Len(r.log) : r.log[k].api = "describe"

\* the attributes whose values the handler o (Create or Update) puts in its
\* requests
SentAttributes(t, o) ==
    CASE t = "transit_gateway_peering_attachment" ->
            IF o = "Create"
            THEN {"peer_account_id", "peer_region", "peer_transit_gateway_id",
                  "transit_gateway_id", "tags"}
            ELSE {"tags"}
      [] t = "carrier_gateway" -> IF o = "Create" THEN {"vpc_id", "tags"} ELSE {"tags"}
      [] t = "dax_parameter_group" ->
            IF o = "Create" THEN {"name", "description", "parameters"} ELSE {"parameters"}
      [] t = "gamelift_alias" -> {"name", "description", "routing_strategy", "tags"}
      [] t = "servicecatalog_constraint" ->
            IF o = "Create"
            THEN {"accept_language", "description", "parameters", "portfolio_id",
                  "product_id", "type"}
            ELSE {"accept_language", "description", "parameters"}
      [] t = "ses_active_receipt_rule_set" -> {"rule_set_name"}
      [] t = "securityhub_organization_configuration" -> {"auto_enable"}

\* the attributes of SentAttributes that the handler o leaves out of its
\* requests, a the configuration and old the attributes before it: in an
\* Update the tags without d.HasChange("tags_all"), the DAX parameters and the
\* attributes of a Service Catalog constraint without d.HasChange of them;
\* the parameters of a DAX Create without parameters
Unsent(t, o, a, old) ==
    (IF o = "Update" /\ t \in TaggedTypes /\ a.tags_all = old.tags_all
     THEN {"tags"} ELSE {})
    \cup (IF o = "Update" /\ t \in {"dax_parameter_group", "servicecatalog_constraint"}
          THEN {x \in SentAttributes(t, o) : a[x] = old[x]} ELSE {})
    \cup (IF t = "dax_parameter_group" /\ o = "Create" /\ a.parameters = "[]"
          THEN {"parameters"} ELSE {})

\* what the Create or Update o that returned r has sent of the configuration
\* a, when the API accepted every request (the handler returned no error, or
\* none before its closing Read) and d kept its id
Sent(t, o, a, old, r) ==
    IF r.id # "" /\ (r.err = NoError \/ ReachedRead(r))
    THEN [sent |-> TRUE, cfg |-> a,
          attributes |-> SentAttributes(t, o) \ Unsent(t, o, a, old)]
    ELSE NothingSent

\* terraform apply of a new resource
Create ==
    /\ id = ""
    /\ \E cfg \in Configs(rtype), in \in OpInputs(rtype, "Create") :
        LET a == Planned(rtype, cfg)
            r == CreateOf(rtype, a, BlankAttrs(rtype), remote, in)
        IN
        /\ Apply("Create", r)
        /\ planned' = Sent(rtype, "Create", a, BlankAttrs(rtype), r)
        /\ reads' = 0

\* terraform refresh
Read ==
    /\ id # ""
    /\ \E in \in OpInputs(rtype, "Read") :
        LET r == ReadOf(rtype, id, attrs, remote, in) IN
        /\ Apply("Read", r)
        /\ planned' = IF r.id = "" THEN NothingSent ELSE planned
        /\ reads' = IF reads < 2 THEN reads + 1 ELSE 2

\* terraform apply of a changed configuration
Update ==
    /\ id # ""
    /\ \E a \in UpdateConfigs(rtype, attrs), in \in OpInputs(rtype, "Update") :
        LET r == UpdateOf(rtype, id, a, attrs, remote, in) IN
        /\ Apply("Update", r)
        /\ planned' = Sent(rtype, "Update", a, attrs, r)
        /\ reads' = 0

\* terraform destroy: the state is removed when Delete returns no error
Delete ==
    /\ id # ""
    /\ \E in \in OpInputs(rtype, "Delete") :
        LET r == DeleteOf(rtype, id, attrs, remote, in) IN
        /\ Apply("Delete", IF r.err = NoError THEN [r EXCEPT !.id = ""] ELSE r)
        /\ planned' = NothingSent
        /\ reads' = 0

\* what happens to the remote object outside Terraform
Outside(rem) ==
    /\ remote' = rem
    /\ remote' # remote
    /\ op' = "outside"
    /\ prevId' = id
    /\ rerr' = NoError
    /\ seen' = "none"
    /\ log' = <<>>
    /\ planned' = NothingSent
    /\ reads' = 0
    /\ UNCHANGED <<rtype, id, attrs>>
    /\ UNCHANGED wvars

\* the remote object is deleted outside Terraform; an EC2 object stays listed
\* in a deleting or deleted state for a while
RemoteDeleted ==
    /\ remote.exists
    /\ rtype # "securityhub_organization_configuration"
    /\ \E rem \in {NoRemote} \cup
                  (IF rtype \in Ec2Types
                   THEN {[remote EXCEPT !.state = st] : st \in {"deleting", "deleted"}}
                   ELSE {}) :
        Outside(rem)

\* the remote objects an outside change of the object rem leads to
RemoteChanges(t, rem) ==
    CASE t \in TaggedTypes ->
            {[rem EXCEPT !.vals.tags = v] : v \in TagMaps}
      [] t = "dax_parameter_group" ->
            {[rem EXCEPT !.vals.parameters = v] : v \in DaxParameterSets}
      [] t = "servicecatalog_constraint" ->
            {[rem EXCEPT !.vals.description = v] : v \in {"", "d"}}
      [] t = "ses_active_receipt_rule_set" ->
            {[rem EXCEPT !.id = v, !.vals.name = v] : v \in Names}
      [] t = "securityhub_organization_configuration" ->
            {[rem EXCEPT !.vals.auto_enable = v] : v \in BOOLEAN}

\* the remote object is changed outside Terraform
RemoteChanged ==
    /\ remote.exists
    /\ \E rem \in RemoteChanges(rtype, remote) : Outside(rem)

RNext ==
    \/ Create
    \/ Read
    \/ Update
    \/ Delete
    \/ RemoteDeleted
    \/ RemoteChanged

CrudSpec == RInit /\ [][RNext]_rvars

(***************************************************************************)
(* The Route 53 Resolver rule data source: one lookup per step, over the   *)
(* resolver rules of the account, which come and go.                       *)
(***************************************************************************)
\* the ids of the resolver rules, in the order ListResolverRules returns them
RuleOrder == <<"rslvr-rr-1", "rslvr-rr-2">>
RuleIds == {RuleOrder[k] : k \in 1..Len(RuleOrder)}
RuleNames == {"r", "s"}
\* route53resolver.ShareStatus*
ShareStatuses == {"NOT_SHARED", "SHARED_WITH_ME"}
\* route53resolver.ResolverRuleStatus* of a rule that GetResolverRule returns
RuleStatuses == {"COMPLETE", "DELETING"}
\* route53ResolverRuleStatusDeleted
route53ResolverRuleStatusDeleted == "DELETED"
\* no rule under an id
NoRule == [exists |-> FALSE]
ResolverRules ==
    [exists : {TRUE}, Id : RuleIds, Name : RuleNames, DomainName : {"example.com."},
     Status : RuleStatuses, ShareStatus : ShareStatuses, Tags : {"{k=v}"}]

\* the configurations of the data source: a resolver_rule_id, or filters,
\* which conflict with it; "" is an attribute left out
LookupConfigs ==
    [resolver_rule_id : RuleIds, name : {""}, domain_name : {""}]
    \cup [resolver_rule_id : {""}, name : RuleNames \cup {""},
          domain_name : {"", "example.com"}]

\* trimTrailingPeriod
trimTrailingPeriod(v) == IF v = "example.com." THEN "example.com" ELSE v

\* the rules of the account rules that ListResolverRules matches with the
\* filters of buildRoute53ResolverAttributeFilterList, which leaves out the
\* filter of an empty value
MatchingRules(rules, cfg) ==
    {rid \in RuleIds :
        /\ rules[rid].exists
        /\ cfg.name # "" => rules[rid].Name = cfg.name
        /\ cfg.domain_name # "" => trimTrailingPeriod(rules[rid].DomainName) = cfg.domain_name}

\* a listing that ends after its first page
PagesFirstOnly(rules, cfg) ==
    LET IsMatching(rid) == rid \in MatchingRules(rules, cfg)
        matching == SelectSeq(RuleOrder, IsMatching)
    IN
    IF Len(matching) = 0 THEN << <<>> >> ELSE << <<rules[matching[1]]>> >>

\* the pages of ListResolverRulesPages: one matching rule a page, and one
\* empty page when no rule matches
Pages(rules, cfg) ==
    LET IsMatching(rid) == rid \in MatchingRules(rules, cfg)
        matching == SelectSeq(RuleOrder, IsMatching)
    IN
    IF matching = <<>> THEN <<(<<>>)>>
    ELSE [k \in 1..Len(matching) |-> <<rules[matching[k]]>>]

\* the callback of ListResolverRulesPages over the pages from page k on, the
\* rules appended so far in acc: it asks for the next page unless lastPage
RECURSIVE appendPages(_, _, _)
appendPages(pages, k, acc) ==
    IF k > Len(pages) THEN acc
    ELSE LET lastPage == (k = Len(pages)) IN
         IF ~lastPage THEN appendPages(pages, k + 1, acc \o pages[k])
         ELSE acc \o pages[k]

\* route53ResolverRuleRefresh(conn, ruleId)(): the rule of that id, its
\* status and the error; a rule that is not found is reported as deleted
route53ResolverRuleRefresh(rules, ruleId, answer) ==
    IF answer = "error" THEN [raw |-> NoRule, state |-> "", err |-> "error"]
    ELSE IF answer = "notfound" \/ ~rules[ruleId].exists
    THEN [raw |-> NoRule, state |-> route53ResolverRuleStatusDeleted, err |-> NoError]
    ELSE [raw |-> rules[ruleId], state |-> rules[ruleId].Status, err |-> NoError]

\* the attributes of the data source before the lookup: its configuration
LookupAttrs(cfg) ==
    [resolver_rule_id |-> cfg.resolver_rule_id, name |-> cfg.name,
     domain_name |-> cfg.domain_name, share_status |-> "", tags |-> "{}"]

\* dataSourceAwsRoute53ResolverRuleRead: cfg the configuration, rules the
\* resolver rules of the account; in.call answers GetResolverRule or
\* ListResolverRulesPages, in.tags the tag listing
dataSourceAwsRoute53ResolverRuleRead(cfg, rules, in) ==
    LET a == LookupAttrs(cfg)
        byId == cfg.resolver_rule_id # ""
        refreshed == route53ResolverRuleRefresh(rules, cfg.resolver_rule_id, in.call)
        found == appendPages(Pages(rules, cfg), 1, <<>>)
        rule == IF byId THEN refreshed.raw ELSE found[1]
        set == [a EXCEPT !.domain_name = trimTrailingPeriod(rule.DomainName),
                         !.name = rule.Name,
                         !.resolver_rule_id = rule.Id,
                         !.share_status = rule.ShareStatus]
        setRule ==
            IF rule.ShareStatus # "SHARED_WITH_ME"
            THEN Called(<<Call("tags", in.tags)>>,
                        IF in.tags # "ok"
                        THEN Done(rule.Id, set, rules, "error listing tags", "found")
                        ELSE Done(rule.Id, [set EXCEPT !.tags = rule.Tags], rules,
                                  NoError, "found"))
            ELSE Done(rule.Id, set, rules, NoError, "found")
    IN
    IF byId
    THEN Called(<<Call("get", IF refreshed.err # NoError THEN "error"
                              ELSE IF refreshed.raw = NoRule THEN "notfound" ELSE "ok")>>,
                IF refreshed.err # NoError
                THEN Done("", a, rules, "error getting", "error")
                ELSE IF refreshed.state = route53ResolverRuleStatusDeleted
                THEN Done("", a, rules, "no rules matched found with the id", "deleted")
                ELSE setRule)
    ELSE Called(<<Call("list", in.call)>>,
                IF in.call # "ok" THEN Done("", a, rules, "error getting", "error")
                ELSE IF Len(found) = 0
                THEN Done("", a, rules, "no rules matched", "notfound")
                ELSE IF Len(found) > 1
                THEN Done("", a, rules, "rules matched", "many")
                ELSE setRule)

\* the answers of the calls of a lookup
LookupInputs ==
    Inputs(DeleteAnswers, {"ok"}, {"ok"}, {"ok"}, {"ok"}, OkOrError, {""}, {<<>>}, {0})

LInit ==
    /\ rtype = "route53_resolver_rule"
    /\ id = ""
    /\ attrs = LookupAttrs([resolver_rule_id |-> "", name |-> "", domain_name |-> ""])
    /\ remote = [rid \in RuleIds |-> NoRule]
    /\ op = "none"
    /\ rerr = NoError
    /\ seen = "none"
    /\ prevId = ""
    /\ log = <<>>
    /\ planned = NothingSent
    /\ reads = 0
    /\ NoWait

\* terraform reads the data source: d starts from the configuration, without id
Lookup ==
    \E cfg \in LookupConfigs, in \in LookupInputs :
        LET r == dataSourceAwsRoute53ResolverRuleRead(cfg, remote, in) IN
        /\ op' = "Lookup"
        /\ prevId' = ""
        /\ id' = r.id
        /\ attrs' = r.attrs
        /\ remote' = r.remote
        /\ rerr' = r.err
        /\ seen' = r.seen
        /\ log' = r.log
        /\ planned' = [sent |-> TRUE, cfg |-> cfg, attributes |-> {}]
        /\ reads' = 0
        /\ UNCHANGED rtype
        /\ UNCHANGED wvars

\* a resolver rule appears in the account, created or shared with it
RuleCreated ==
    \E rule \in ResolverRules :
        /\ ~remote[rule.Id].exists
        /\ Outside([remote EXCEPT ![rule.Id] = rule])

\* a resolver rule starts to be deleted, or is gone from the account
RuleDeleted ==
    \E rid \in RuleIds :
        /\ remote[rid].exists
        /\ \/ Outside([remote EXCEPT ![rid] = NoRule])
           \/ Outside([remote EXCEPT ![rid].Status = "DELETING"])

LNext ==
    \/ Lookup
    \/ RuleCreated
    \/ RuleDeleted

LookupSpec == LInit /\ [][LNext]_rvars

(***************************************************************************)
(* Two resource instances of one type in one account. Each instance has    *)
(* its own d (id and attributes); the remote objects are kept under the    *)
(* address the requests of the handlers name. The API answers every call   *)
(* with success, and the create calls hand out a different id to each      *)
(* instance.                                                               *)
(***************************************************************************)
Instances == {"one", "two"}

\* the id a create call hands out to the instance x, and the name x
\* configures for an object that is addressed by its name
InstanceId(x) == IF x = "one" THEN "id-1" ELSE "id-2"
InstanceName(x) == IF x = "one" THEN "a" ELSE "b"

\* every handler addresses the one object of the account
AddressedAccountWide(t, i) == "account"

\* the remote object the requests of a handler address, i the id of d: the
\* SES and Security Hub requests carry no identifier and address the active
\* receipt rule set and the organization configuration of the account
Addressed(t, i) ==
    IF t \in {"ses_active_receipt_rule_set", "securityhub_organization_configuration"}
    THEN "account"
    ELSE i

Addresses == ServerIds \cup Names \cup {"account"}

\* the id of the object that Create creates from the planned attributes a
CreatedId(t, a, in) ==
    CASE t = "dax_parameter_group" -> a.name
      [] t = "ses_active_receipt_rule_set" -> a.rule_set_name
      [] t = "securityhub_organization_configuration" -> AccountID
      [] OTHER -> in.newId

\* the configurations of the instance x
PairConfigs(t, x) ==
    IF t = "dax_parameter_group"
    THEN {cfg \in Configs(t) : cfg.name = InstanceName(x)}
    ELSE Configs(t)

\* the answers of the handler o of the instance x: every call succeeds
PairInputs(t, o, x) ==
    {in \in OpInputs(t, o) :
        /\ in.call = "ok" /\ in.wait = "ok" /\ in.describe = "ok"
        /\ in.describe2 = "ok" /\ in.tags = "ok"
        /\ in.newId \in {"", InstanceId(x)}
        /\ in.answers # <<>> => (in.answers[1] = "ok" /\ in.budget = 1)}

PInit ==
    /\ rtype \in ResourceTypes
    /\ id = [x \in Instances |-> ""]
    /\ attrs = [x \in Instances |-> BlankAttrs(rtype)]
    /\ remote = [k \in Addresses |-> IF k = "account" THEN InitialRemote(rtype)
                                     ELSE NoRemote]
    /\ op = [name |-> "none", by |-> "none"]
    /\ rerr = NoError
    /\ seen = "none"
    /\ prevId = [x \in Instances |-> ""]
    /\ log = <<>>
    /\ planned = [x \in Instances |-> NothingSent]
    /\ reads = 0
    /\ NoWait

\* The handler o of the instance x, whose requests address k, has returned r.
PairApply(o, x, k, r) ==
    /\ op' = [name |-> o, by |-> x]
    /\ prevId' = id
    /\ id' = [id EXCEPT ![x] = r.id]
    /\ attrs' = [attrs EXCEPT ![x] = IF r.id = "" THEN BlankAttrs(rtype) ELSE r.attrs]
    /\ remote' = [remote EXCEPT ![k] = r.remote]
    /\ rerr' = r.err
    /\ seen' = r.seen
    /\ log' = r.log
    /\ reads' = 0
    /\ UNCHANGED rtype
    /\ UNCHANGED wvars

PairCreate ==
    \E x \in Instances :
        /\ id[x] = ""
        /\ \E cfg \in PairConfigs(rtype, x), in \in PairInputs(rtype, "Create", x) :
            LET a == Planned(rtype, cfg)
                k == Addressed(rtype, CreatedId(rtype, a, in))
                r == CreateOf(rtype, a, BlankAttrs(rtype), remote[k], in)
            IN
            /\ PairApply("Create", x, k, r)
            /\ planned' = [planned EXCEPT
                               ![x] = Sent(rtype, "Create", a, BlankAttrs(rtype), r)]

PairRead ==
    \E x \in Instances :
        /\ id[x] # ""
        /\ \E in \in PairInputs(rtype, "Read", x) :
            LET k == Addressed(rtype, id[x])
                r == ReadOf(rtype, id[x], attrs[x], remote[k], in)
            IN
            /\ PairApply("Read", x, k, r)
            /\ planned' = [planned EXCEPT ![x] = IF r.id = "" THEN NothingSent ELSE @]

PairUpdate ==
    \E x \in Instances :
        /\ id[x] # ""
        /\ \E a \in UpdateConfigs(rtype, attrs[x]), in \in PairInputs(rtype, "Update", x) :
            LET k == Addressed(rtype, id[x])
                r == UpdateOf(rtype, id[x], a, attrs[x], remote[k], in)
            IN
            /\ PairApply("Update", x, k, r)
            /\ planned' = [planned EXCEPT ![x] = Sent(rtype, "Update", a, attrs[x], r)]

PairDelete ==
    \E x \in Instances :
        /\ id[x] # ""
        /\ \E in \in PairInputs(rtype, "Delete", x) :
            LET k == Addressed(rtype, id[x])
                r == DeleteOf(rtype, id[x], attrs[x], remote[k], in)
            IN
            /\ PairApply("Delete", x, k, IF r.err = NoError THEN [r EXCEPT !.id = ""] ELSE r)
            /\ planned' = [planned EXCEPT ![x] = NothingSent]

PNext ==
    \/ PairCreate
    \/ PairRead
    \/ PairUpdate
    \/ PairDelete

PairSpec == PInit /\ [][PNext]_rvars

(***************************************************************************)
(* Properties of the FSx waits.                                            *)
(***************************************************************************)
\* a describe call returns to the poller in this step
DescribeReturns == returned' = returned + 1
\* the wait has returned without error
WaitSucceeded == wpc = "done" /\ werr = NilErr
\* the errors a wait returns
WaitErrorKinds ==
    {"TimeoutError", "UnexpectedStateError", "NotFoundError", ErrCodeInternalServerError}

\* C1: the describe call that first reports a status of the target set ends
\* the wait with success, whatever pending statuses came before, and a wait
\* that has returned makes no further describe call.
C1_SuccessAtFirstTarget ==
    [][/\ (DescribeReturns /\ ~lastResult'.Result.nil
            /\ lastResult'.State \in
                  CASE wkind = "creation" -> {"AVAILABLE"}
                    [] wkind = "deletion" -> {}
                    [] wkind = "update" -> {"AVAILABLE"}
                    [] wkind = "adminaction" -> {"COMPLETED", "UPDATED_OPTIMIZING"})
           => (wpc' = "done" /\ werr' = NilErr)
       /\ (wpc = "done" => (polls' = polls /\ returned' = returned))]_wvars

\* the creation wait succeeded on its third describe call, after CREATING twice
C1_Witness ==
    /\ wkind = "creation"
    /\ WaitSucceeded
    /\ polls = 3 /\ returned = 3
    /\ onlyPendingBefore
    /\ lastResult.State = "AVAILABLE"

\* C2: in the deletion wait a describe call that reports the file system
\* absent, by a FileSystemNotFound error or by not listing it, ends the wait
\* with success; a status AVAILABLE or DELETING before the timeout keeps it
\* polling.
C2_DeletionSucceedsOnAbsence ==
    [][(wkind = "deletion" /\ DescribeReturns) =>
        /\ (lastDescribe'.filesystem.nil
             /\ lastDescribe'.err \in {NoApiError, ErrCodeFileSystemNotFound})
            => (wpc' = "done" /\ werr' = NilErr /\ polls' = returned')
        /\ (~lastDescribe'.filesystem.nil /\ wpc = "polling"
             /\ lastDescribe'.filesystem.Lifecycle \in {"AVAILABLE", "DELETING"})
            => (wpc' = "polling" /\ werr' = NilErr)]_wvars

\* the deletion wait succeeded on a FileSystemNotFound error after two
\* describe calls that found the file system
C2_Witness ==
    /\ wkind = "deletion"
    /\ WaitSucceeded
    /\ returned = 3
    /\ onlyPendingBefore
    /\ lastDescribe.err = ErrCodeFileSystemNotFound

\* C3: a wait that ends in a timeout error after its last describe call
\* returned a file system with failure details reports the message of these
\* details as the cause of the error.
C3_TimeoutCarriesFailureDetails ==
    (/\ wpc = "done"
     /\ werr.kind = "TimeoutError"
     /\ ~lastDescribe.filesystem.nil
     /\ lastDescribe.filesystem.FailureDetails # NoDetails)
    => werr.LastError = lastDescribe.filesystem.FailureDetails

\* C4: a describe call that reports a status outside the pending and the
\* target set ends the wait with an error at that call, an unexpected-state
\* error when the timeout had not fired, and no describe call follows.
C4_UnexpectedStateFailsAtOnce ==
    [][/\ (DescribeReturns /\ ~lastResult'.Result.nil
            /\ lastResult'.State \notin
                  CASE wkind = "creation" -> {"CREATING", "AVAILABLE"}
                    [] wkind = "deletion" -> {"AVAILABLE", "DELETING"}
                    [] wkind = "update" -> {"UPDATING", "AVAILABLE"}
                    [] wkind = "adminaction" ->
                         {"IN_PROGRESS", "PENDING", "COMPLETED", "UPDATED_OPTIMIZING"})
           => /\ wpc' = "done"
              /\ IF wpc = "polling"
                 THEN werr'.kind = "UnexpectedStateError" /\ timerAt' = -1
                 ELSE werr'.kind = "TimeoutError"
                      /\ werr'.LastError = "UnexpectedStateError"
              /\ werr'.LastState = lastResult'.State
       /\ (wpc = "done" => (polls' = polls /\ returned' = returned))]_wvars

\* the creation wait failed on FAILED at its third describe call, before the
\* timeout
C4_Witness ==
    /\ wkind = "creation"
    /\ wpc = "done"
    /\ timerAt = -1
    /\ returned = 3
    /\ lastResult.State = "FAILED"
    /\ werr.kind = "UnexpectedStateError"

\* C5: every wait returns, with success or with one of the errors, and after
\* the timeout has fired at most the one describe call in flight returns.
C5_WaitTerminates ==
    /\ <>(wpc = "done")
    /\ [](wpc = "done" => werr.kind \in {NoError} \cup WaitErrorKinds)
    /\ [](timerAt >= 0 => returned <= timerAt + 1)

\* a wait ended in the timeout error after the describe call in flight at the
\* timeout returned a pending status
C5_Witness ==
    /\ wpc = "done"
    /\ timerAt >= 1
    /\ returned = timerAt + 1
    /\ onlyPending
    /\ werr.kind = "TimeoutError"

\* C6 as stated: before the timeout a FileSystemNotFound error is swallowed
\* and the wait keeps polling; any other describe error ends the wait at
\* that call and is returned.
C6_NotFoundKeepsPolling ==
    [][DescribeReturns =>
        /\ (lastDescribe'.err = ErrCodeFileSystemNotFound /\ wpc = "polling")
            => (lastResult'.Error = NoError /\ wpc' = "polling")
        /\ (lastDescribe'.err = ErrCodeInternalServerError)
            => (wpc' = "done" /\ werr'.kind # NoError)]_wvars

\* C6 amended: a FileSystemNotFound error is swallowed by the refresh; before
\* the timeout the deletion wait then returns success, and the other waits
\* keep polling unless it is the 21st describe call in a row that found no
\* file system, which ends the wait with a not-found error. Any other
\* describe error ends the wait at that call and is returned, as the cause of
\* the timeout error when the timeout had fired; no describe call follows.
C6_NotFoundSwallowedOtherErrorsReturned ==
    [][/\ DescribeReturns =>
           /\ (lastDescribe'.err = ErrCodeFileSystemNotFound /\ wpc = "polling")
               => IF wkind = "deletion"
                  THEN wpc' = "done" /\ werr' = NilErr
                  ELSE IF notfoundTick' > 20
                  THEN wpc' = "done" /\ werr'.kind = "NotFoundError"
                  ELSE wpc' = "polling" /\ lastResult'.Error = NoError
                       /\ notfoundTick' = notfoundTick + 1
           /\ (lastDescribe'.err = ErrCodeInternalServerError)
               => /\ wpc' = "done"
                  /\ IF wpc = "polling"
                     THEN werr'.kind = ErrCodeInternalServerError
                     ELSE werr'.kind = "TimeoutError"
                          /\ werr'.LastError = ErrCodeInternalServerError
       /\ (wpc = "done" => (polls' = polls /\ returned' = returned))]_wvars

\* the update wait ended with the not-found error on its 21st describe call
\* in a row answered by FileSystemNotFound or by no file system
C6_Witness ==
    /\ wkind = "update"
    /\ wpc = "done"
    /\ lastDescribe.err = ErrCodeFileSystemNotFound
    /\ notfoundTick = 21
    /\ returned = 21
    /\ werr.kind = "NotFoundError"

\* C7: a creation, update or administrative-action wait returns success only
\* on a describe call that found the file system, in a target status; when
\* its last describe call reported the file system absent it has returned an
\* error.
C7_AbsenceIsNoSuccessOutsideDeletion ==
    (wkind # "deletion" /\ wpc = "done" /\ returned > 0) =>
        /\ werr = NilErr =>
              (/\ ~lastDescribe.filesystem.nil
               /\ lastResult.State \in {"AVAILABLE", "COMPLETED", "UPDATED_OPTIMIZING"})
        /\ lastDescribe.filesystem.nil => werr.kind \in WaitErrorKinds
        /\ notfoundTick = returned => werr.kind \in {"TimeoutError", "NotFoundError"}

\* the update wait saw the file system absent at each of its three describe
\* calls and ended in the timeout error
C7_Witness ==
    /\ wkind = "update"
    /\ wpc = "done"
    /\ returned = 3
    /\ notfoundTick = 3
    /\ lastDescribe.filesystem.nil
    /\ werr.kind = "TimeoutError"

\* the status of the first non-nil action of the requested type, COMPLETED
\* when there is none
FirstActionStatus(actions, action) ==
    LET matching == {i \in 1..Len(actions) :
                        /\ ~actions[i].nil
                        /\ actions[i].AdministrativeActionType = action}
    IN  IF matching = {} THEN "COMPLETED"
        ELSE actions[CHOOSE i \in matching : \A j \in matching : i <= j].Status

\* C8: the administrative-action wait judges the status of the first listed
\* non-nil action of the requested type, COMPLETED when no such action is
\* listed, whatever the lifecycle of the file system: IN_PROGRESS and PENDING
\* keep it polling, COMPLETED and UPDATED_OPTIMIZING end it with success, any
\* other status ends it with an error.
C8_AdminActionStatusPolled ==
    (wkind = "adminaction" /\ returned > 0 /\ ~lastDescribe.filesystem.nil) =>
        LET status == FirstActionStatus(lastDescribe.filesystem.AdministrativeActions,
                                        waction)
        IN  /\ lastResult.State = status
            /\ lastResult.Result = lastDescribe.filesystem
            /\ status \in {"IN_PROGRESS", "PENDING"} =>
                    (wpc \in {"polling", "grace"} \/ werr.kind = "TimeoutError")
            /\ status \in {"COMPLETED", "UPDATED_OPTIMIZING"} => WaitSucceeded
            /\ status \notin {"IN_PROGRESS", "PENDING", "COMPLETED", "UPDATED_OPTIMIZING"}
                    => (wpc = "done" /\ werr.kind \in WaitErrorKinds)

\* the wait succeeded on the status of the first of two listed actions of the
\* requested type, the second of which is still in progress
C8_Witness ==
    /\ wkind = "adminaction"
    /\ WaitSucceeded
    /\ Len(lastDescribe.filesystem.AdministrativeActions) = 2
    /\ \A i \in 1..2 :
          /\ ~lastDescribe.filesystem.AdministrativeActions[i].nil
          /\ lastDescribe.filesystem.AdministrativeActions[i].AdministrativeActionType
                = waction
    /\ lastDescribe.filesystem.AdministrativeActions[1].Status = "UPDATED_OPTIMIZING"
    /\ lastDescribe.filesystem.AdministrativeActions[2].Status = "IN_PROGRESS"

(***************************************************************************)
(* Properties of the resource handlers.                                    *)
(***************************************************************************)
\* the describe call of the last handler found the resource absent
SeenAbsent == seen \in {"notfound", "empty", "deleted"}

\* C9 as stated: for every resource type, a Read that finds the resource
\* absent (not-found error, empty describe result, deleted state) clears the
\* id and returns no error.
C9_ReadClearsIdOnAbsence ==
    (op = "Read" /\ SeenAbsent) => (id = "" /\ rerr = NoError)

\* the absences that Read answers with an error: every one for the Security
\* Hub organization configuration; for the Service Catalog constraint an
\* empty response, and a not-found error while the resource is new
AbsenceIsError ==
    \/ rtype = "securityhub_organization_configuration"
    \/ rtype = "servicecatalog_constraint" /\ (seen = "empty" \/ op = "Create")

\* C9: a Read that finds the resource absent, called by Terraform or at the
\* end of Create or Update, clears the id and returns no error, for the
\* transit gateway peering attachment, the carrier gateway, the DAX parameter
\* group, the GameLift alias and the SES active receipt rule set; the Service
\* Catalog constraint does so on a not-found error of a resource that is not
\* new, and returns an error and keeps the id on an empty response and while
\* the resource is new; the Security Hub organization configuration returns
\* the error and keeps the id.
C9_ReadClearsIdOnAbsenceExceptTwoTypes ==
    SeenAbsent =>
        IF AbsenceIsError THEN id # "" /\ rerr # NoError
        ELSE id = "" /\ rerr = NoError

\* a refresh found the transit gateway peering attachment in a deleted state
\* and removed it from the state
C9_Witness ==
    /\ rtype = "transit_gateway_peering_attachment"
    /\ op = "Read"
    /\ seen = "deleted"
    /\ prevId # ""
    /\ id = ""
    /\ rerr = NoError

C11_ReadIsIdempotent ==
    [][(op = "Read" /\ op' = "Read" /\ remote' = remote /\ log' = log)
           => (id' = id /\ attrs' = attrs)]_rvars

\* two Reads in succession have found the resource and kept the id
C11_Witness ==
    /\ op = "Read"
    /\ reads = 2
    /\ seen = "found"
    /\ rerr = NoError
    /\ id # ""
    /\ id = prevId

\* the value sent for the attribute x of the configuration cfg: the account
\* of the caller for a peer_account_id left out
SentValue(t, cfg, x) ==
    IF t = "transit_gateway_peering_attachment" /\ x = "peer_account_id" /\ cfg[x] = ""
    THEN AccountID
    ELSE cfg[x]

\* a Read has found the resource since the last Create or Update sent its
\* configuration, and nothing changed the remote object in between
ReadBack == planned.sent /\ seen = "found" /\ rerr = NoError

AsyncDeleteTypes ==
    {"transit_gateway_peering_attachment", "carrier_gateway", "servicecatalog_constraint"}

\* the handler called last made the call api and got the answer
Answered(api, answer) == \E k \in 1..Len(log) : log[k] = Call(api, answer)

\* the handler called last made the call api
Made(api) == \E k \in 1..Len(log) : log[k].api = api

\* C13: an asynchronous Delete is polled to completion. For the transit
\* gateway peering attachment, the carrier gateway and the Service Catalog
\* constraint, Delete starts the deletion wait only right after a delete call
\* that succeeded; it returns success only if the delete call reported
\* not-found or the wait ended with the resource deleted or absent; and a
\* wait that failed makes Delete return an error.
C13_AsyncDeleteIsPolledToCompletion ==
    (op = "Delete" /\ rtype \in AsyncDeleteTypes) =>
        /\ \A k \in 1..Len(log) :
               log[k].api = "deletewait" => (k > 1 /\ log[k - 1] = Call("delete", "ok"))
        /\ rerr = NoError =>
               \/ Answered("delete", "notfound")
               \/ Answered("deletewait", "ok")
               \/ Answered("deletewait", "notfound")
        /\ Answered("deletewait", "error") => rerr # NoError

\* a Delete of a Service Catalog constraint has returned success after its
\* call succeeded and its wait found the constraint absent
C13_Witness ==
    /\ op = "Delete"
    /\ rtype = "servicecatalog_constraint"
    /\ log = <<Call("delete", "ok"), Call("deletewait", "notfound")>>
    /\ rerr = NoError
    /\ prevId # ""
    /\ id = ""
    /\ ~remote.exists


\* the lookup identified exactly one rule: by id, the rule of that id was
\* returned; by filters, the listing succeeded with one match over all pages
IdentifiedOne ==
    IF planned.cfg.resolver_rule_id # ""
    THEN Answered("get", "ok")
    ELSE Answered("list", "ok") /\ Cardinality(MatchingRules(remote, planned.cfg)) = 1

\* C14 as stated: the lookup returns success and sets the identifier if and
\* only if exactly one rule is identified, and otherwise returns an error
\* with the identifier unset.
C14_LookupSucceedsIffOneRule ==
    op = "Lookup" =>
        /\ (rerr = NoError /\ id # "") <=> IdentifiedOne
        /\ ~IdentifiedOne => (rerr # NoError /\ id = "")

\* C14 amended: the lookup returns success and sets the identifier if and
\* only if exactly one rule is identified and the listing of its tags, made
\* unless the rule is shared with the account, succeeds; zero or several
\* matches over all pages, a failed call and the deleted state return an error
\* with the identifier unset; a failed tag listing returns an error with the
\* identifier already set.
C14_LookupSucceedsIffOneRuleAndTags ==
    op = "Lookup" =>
        /\ (rerr = NoError /\ id # "") <=> (IdentifiedOne /\ ~Answered("tags", "error"))
        /\ ~IdentifiedOne => (rerr # NoError /\ id = "" /\ ~Made("tags"))
        /\ (IdentifiedOne /\ Answered("tags", "error")) => (rerr # NoError /\ id # "")
        /\ IdentifiedOne =>
               /\ remote[id].exists
               /\ id \in MatchingRules(remote, planned.cfg) \/ id = planned.cfg.resolver_rule_id
               /\ Made("tags") <=> remote[id].ShareStatus # "SHARED_WITH_ME"
        /\ seen = "deleted" => (planned.cfg.resolver_rule_id # "" /\ rerr # NoError /\ id = "")

\* a lookup by filters in an account of two rules identified one rule, set
\* the identifier, and failed on the listing of the rule's tags
C14_Witness ==
    /\ op = "Lookup"
    /\ planned.cfg.resolver_rule_id = ""
    /\ \A rid \in RuleIds : remote[rid].exists
    /\ IdentifiedOne
    /\ Answered("tags", "error")
    /\ rerr # NoError
    /\ id # ""


\* the answers of a call or of a wait that are errors
ErrorAnswers == {"error", "notfound", "profile"}

\* the k-th call of the last handler returned an error that is not the
\* not-found of a describe call of Read
ReturnedError(k) ==
    /\ log[k].api \in {"create", "createwait", "update", "tags", "delete", "deletewait",
                       "describe", "describe2"}
    /\ log[k].answer \in ErrorAnswers
    /\ ~(log[k].api \in {"describe", "describe2"} /\ log[k].answer = "notfound")

\* C15 as stated: in Create, Update and Delete, every error of an API call or
\* of a wait, but the not-found of Read, makes the handler return an error.
C15_NoErrorIsSwallowed ==
    op \in {"Create", "Update", "Delete"} =>
        \A k \in 1..Len(log) : ReturnedError(k) => rerr # NoError

\* the errors the handlers do not return: the not-found of the delete call
\* where Delete takes it for done, the not-found of waitConstraintDeleted, and
\* a propagation error of the Service Catalog constraint that resource.Retry
\* answers with a further call
Swallowed(k) ==
    \/ /\ log[k] = Call("delete", "notfound")
       /\ rtype \in {"transit_gateway_peering_attachment", "carrier_gateway",
                     "dax_parameter_group", "servicecatalog_constraint"}
    \/ /\ log[k] = Call("deletewait", "notfound")
       /\ rtype = "servicecatalog_constraint"
    \/ /\ rtype = "servicecatalog_constraint"
       /\ log[k].api \in {"create", "update"}
       /\ log[k].answer \in {"profile", "notfound"}
       /\ \E j \in (k + 1)..Len(log) : log[j].api = log[k].api

\* C15 amended: in Create, Update and Delete, every error of an API call or
\* of a wait makes the handler return an error, but the not-found of Read, the
\* not-found of the delete call of the transit gateway peering attachment,
\* the carrier gateway, the DAX parameter group and the Service Catalog
\* constraint, the not-found of the constraint's deletion wait, and a retried
\* propagation error of the constraint followed by a further call; the Delete
\* of the GameLift alias returns the not-found of its delete call.
C15_NoErrorIsSwallowedButNotFoundAndRetried ==
    op \in {"Create", "Update", "Delete"} =>
        /\ \A k \in 1..Len(log) : (ReturnedError(k) /\ ~Swallowed(k)) => rerr # NoError
        /\ (op = "Delete" /\ \E k \in 1..Len(log) : log[k].answer = "notfound" /\ Swallowed(k))
               => (rerr = NoError /\ id = "")

\* the Delete of a DAX parameter group that is already gone returned success
\* on the not-found of its delete call
C15_Witness ==
    /\ rtype = "dax_parameter_group"
    /\ op = "Delete"
    /\ log = <<Call("delete", "notfound")>>
    /\ Swallowed(1)
    /\ rerr = NoError
    /\ prevId # ""
    /\ id = ""


\* the positions of the CreateConstraint and UpdateConstraint calls of the log
RequestCalls == {k \in 1..Len(log) : log[k].api \in {"create", "update"}}

\* the retries of the Service Catalog constraint are bounded, every operation
\* ends with success or an error, and the identifier is set by Create only
\* after a CreateConstraint call answered with the constraint
RetriesAreBounded ==
    /\ Cardinality(RequestCalls) <= MaxTries + 1
    /\ \A k \in RequestCalls :
           (\E j \in RequestCalls : j > k) => log[k].answer \in {"profile", "notfound"}
    /\ (op = "Create" /\ id # "") =>
           \E k \in RequestCalls : log[k] = Call("create", "ok") /\ \A j \in RequestCalls : j <= k

\* C16 as stated: the retries of the constraint's Create and Update are
\* bounded, and whenever the retry window times out exactly one further call
\* is made, whose result decides the outcome.
C16_OneFurtherCallAfterTimeout ==
    (rtype = "servicecatalog_constraint" /\ op \in {"Create", "Update"}) =>
        /\ RetriesAreBounded
        /\ \A k \in 1..Len(log) :
               log[k].api = "retry" =>
                   /\ k < Len(log)
                   /\ k + 1 \in RequestCalls
                   /\ \A j \in RequestCalls : j <= k + 1
                   /\ log[k + 1].answer \in ErrorAnswers <=> rerr = "error " \o
                          (IF op = "Create" THEN "creating" ELSE "updating")

\* C16 amended: the retries are bounded; when the retry window ends before any
\* call returned, exactly one further call is made and its result decides the
\* outcome; when it ends after a retryable error, no further call is made and
\* the operation returns that error.
C16_OneFurtherCallAfterTimeoutWithoutAnswer ==
    (rtype = "servicecatalog_constraint" /\ op \in {"Create", "Update"}) =>
        /\ RetriesAreBounded
        /\ \A k \in 1..Len(log) :
               log[k].api = "retry" =>
                   IF k = 1
                   THEN /\ RequestCalls = {2}
                        /\ log[2].answer \in ErrorAnswers <=> rerr = "error " \o
                               (IF op = "Create" THEN "creating" ELSE "updating")
                   ELSE /\ k = Len(log)
                        /\ RequestCalls = 1..(k - 1)
                        /\ \A j \in RequestCalls : log[j].answer \in {"profile", "notfound"}
                        /\ rerr # NoError
                        /\ id = prevId

\* the Create of a constraint was answered with propagation errors until the
\* retry window ended, and returned the last of them without a further call
C16_Witness ==
    /\ rtype = "servicecatalog_constraint"
    /\ op = "Create"
    /\ Len(log) > 2
    /\ log[Len(log)] = Call("retry", "timeout")
    /\ \A k \in 1..(Len(log) - 1) : log[k] = Call("create", "profile")
    /\ rerr # NoError
    /\ id = ""


\* the answers that the retried request of the last handler does not retry
NonTransient ==
    IF op = "Create" THEN {"error"} ELSE {"error", "notfound"}

\* C17: in the Create and the Update of the Service Catalog constraint a call
\* answered with an error that is not retryable (in Create neither "profile
\* does not exist" nor ResourceNotFound, in Update not "profile does not
\* exist") is the last call of the handler, which fails with the identifier
\* as it was; when the first call is answered so, it is the only call.
C17_NonTransientErrorsAreNotRetried ==
    (rtype = "servicecatalog_constraint" /\ op \in {"Create", "Update"}) =>
        /\ \A k \in RequestCalls :
               log[k].answer \in NonTransient =>
                   /\ k = Len(log)
                   /\ \A j \in RequestCalls : j < k => log[j].answer \notin NonTransient
                   /\ rerr = "error " \o (IF op = "Create" THEN "creating" ELSE "updating")
                   /\ id = prevId
                   /\ seen = "none"
        /\ (Len(log) > 0 /\ log[1].api \in {"create", "update"}
                /\ log[1].answer \in NonTransient)
               => (Len(log) = 1 /\ rerr # NoError)

\* the Update of a constraint was answered with ResourceNotFound by its first
\* UpdateConstraint call and failed after that one call
C17_Witness ==
    /\ rtype = "servicecatalog_constraint"
    /\ op = "Update"
    /\ log = <<Call("update", "notfound")>>
    /\ rerr = "error updating"
    /\ id # ""
    /\ id = prevId


\* the step leaves alone the d of every instance that did not act and the
\* remote object its identifier addresses
OthersUntouched ==
    \A x \in Instances :
        (op'.by # x) =>
            /\ id'[x] = id[x]
            /\ attrs'[x] = attrs[x]
            /\ id[x] # "" =>
                   remote'[Addressed(rtype, id[x])] = remote[Addressed(rtype, id[x])]

\* after the step, the instance that acted and found its object reads back
\* the values its last Create or Update sent, as it does when it runs alone
ActorReadsBackItsOwn ==
    \A x \in Instances :
        (op'.by = x /\ planned'[x].sent /\ seen' = "found" /\ rerr' = NoError) =>
            \A v \in planned'[x].attributes :
                attrs'[x][v] = SentValue(rtype, planned'[x].cfg, v)

\* the resource types whose requests address one object of the account
AccountWideTypes ==
    {"ses_active_receipt_rule_set", "securityhub_organization_configuration"}

C19_CreateSuccessHasId ==
    (op = "Create" /\ rerr = NoError) => id # ""


\* the create request of the last Create failed: its last call, the
\* SetActiveReceiptRuleSet or UpdateOrganizationConfiguration call of the
\* resources that Create by their Update, returned an error
CreateCallFailed ==
    /\ RequestCalls # {}
    /\ \E k \in RequestCalls :
           /\ \A j \in RequestCalls : j <= k
           /\ log[k].answer \in ErrorAnswers
           /\ log[k].api = IF rtype \in AccountWideTypes THEN "update" ELSE "create"

\* C20: when the create call of a Create fails, Create returns an error, d has
\* no identifier, and neither a wait nor a Read was made; when the create call
\* of a transit gateway peering attachment or of a carrier gateway succeeds
\* and the wait for availability fails, Create returns an error and d has the
\* identifier of the new object.
C20_FailedCreateSetsNoId ==
    op = "Create" =>
        /\ CreateCallFailed =>
               /\ rerr # NoError
               /\ id = ""
               /\ ~Made("createwait")
               /\ ~Made("describe") /\ ~Made("describe2")
               /\ seen = "none"
        /\ (rtype \in Ec2Types /\ \E k \in 1..Len(log) :
                                      log[k].api = "createwait" /\ log[k].answer # "ok") =>
               /\ rerr # NoError
               /\ id # ""
               /\ remote.exists /\ id = remote.id
               /\ Answered("create", "ok")
               /\ ~Made("describe")

\* the create call of a carrier gateway succeeded and the wait for its
\* availability failed: Create returned an error and d has the new id
C20_Witness ==
    /\ rtype = "carrier_gateway"
    /\ op = "Create"
    /\ log = <<Call("create", "ok"), Call("createwait", "error")>>
    /\ rerr = "error waiting"
    /\ id # ""
    /\ id = remote.id


\* C21: for every resource type, a Delete whose delete call reports that the
\* resource is not found returns success and makes no deletion wait.
C21_DeleteOfAbsentSucceeds ==
    (op = "Delete" /\ Answered("delete", "notfound")) =>
        /\ rerr = NoError
        /\ id = ""
        /\ ~Made("deletewait")

\* C22: every successful Read of an SES active receipt rule set that leaves an
\* identifier leaves the identifier, rule_set_name and the rule-set name of
\* the arn equal to the name of the rule set that is active in the account.
C22_ReadAgreesWithActiveRuleSet ==
    (rtype = "ses_active_receipt_rule_set" /\ op = "Read" /\ rerr = NoError /\ id # "") =>
        /\ remote.exists
        /\ id = remote.vals.name
        /\ attrs.rule_set_name = remote.vals.name
        /\ attrs.arn = ReceiptRuleSetArn(remote.vals.name)

====
